---- MODULE Spec2Model ----
(***************************************************************************)
(* Model of the Ideon map scraper scripts:                                 *)
(*   scripts/scrape_ideon_map.py   tooltip parser, scans, strategy choice  *)
(*   scripts/auto_verify.py        verifier parser, grid scan, comparison  *)
(*   scripts/export_state_data.py  state-level aggregation, CSV export      *)
(*   scripts/export_county_data.py download with a cache file, CSV export  *)
(*                                                                         *)
(* A text is a sequence of characters; a character is a one-character      *)
(* string, except the non-ASCII ones, which carry a name ("EN_DASH").      *)
(* A parsed number is the decimal [n, k] standing for n / 10^k, kept in    *)
(* canonical form (no trailing zero in the fraction), or None.             *)
(***************************************************************************)
EXTENDS Integers, Sequences, FiniteSets, TLC

VARIABLES
    pc,        \* position of the running script
    input,     \* description of the text under test (what was written)
    text,      \* the raw tooltip text handed to the parsers
    rec,       \* result of scrape_ideon_map.parse_tooltip
    vrec,      \* result of auto_verify.parse_tooltip
    money,     \* argument of parse_money
    amount,    \* result of parse_money
    scanner,   \* the scan that runs: "svg", "canvas" or "verify"
    paths,     \* scrape_svg_map: number of visible SVG paths
    idx,       \* scrape_svg_map: index i of the path the loop is at
    box,       \* grid scans: bounding box of the canvas / map container
    gx,        \* grid scans: x of the grid point the loop is at
    gy,        \* grid scans: y of the grid point the loop is at
    results,   \* scrape_svg_map, scrape_canvas_map: list of records
    seen,      \* scrape_svg_map, scrape_canvas_map: set of keys
    found_counties, \* verify: dict key -> data, in insertion order
    fed,       \* history: the samples that reached the key test, in order
    our_data,  \* verify: the rows of county_data_raw.json
    our_lookup, \* verify: dict key -> row of the year 26, age 50, gold slice
    mismatches, \* verify: the mismatch counter
    ci,        \* verify: number of keys the comparison loop has handled
    report,    \* verify: the MISMATCH / NOT FOUND lines printed, in order
    retval,    \* verify: the value returned
    agg_data,  \* aggregate_by_state: the argument data
    agg_year,  \* aggregate_by_state: the argument year
    agg_out,   \* aggregate_by_state: the list returned
    script,    \* the script that runs
    page,      \* the page the browser shows: "any" or "numbered"
    browser,   \* the browser: "none", "open" or "closed"
    svg_paths, \* scrape_map: count of "svg path[d]"
    canvas_elements, \* scrape_map: count of "canvas"
    ran,       \* history: the scans scrape_map started, in order
    cache_exists, \* the cache file exists
    cache_file, \* the JSON text of the cache file, as a list of rows
    fetches,   \* history: number of downloads from DATA_URL
    returned,  \* history: what the calls of fetch_data returned, in order
    csv        \* the output CSV: whether written, and the rows written

parseVars == <<input, text, rec, vrec, money, amount>>
scanVars == <<scanner, paths, idx, box, gx, gy, results, seen,
              found_counties, fed>>
verifyVars == <<our_data, our_lookup, mismatches, ci, report, retval>>
aggVars == <<agg_data, agg_year, agg_out>>
runVars == <<script, page, browser, svg_paths, canvas_elements, ran>>
fileVars == <<cache_exists, cache_file, fetches, returned, csv>>
vars == <<pc, parseVars, scanVars, verifyVars, aggVars, runVars, fileVars>>

\* Python's None as a result, a raised ValueError, and a result not yet
\* computed; None as a text argument is NullText, which is no text
None == [none |-> TRUE]
ValueError == [error |-> "ValueError"]
Unset == [unset |-> TRUE]
NullText == <<"NULL">>

----------------------------------------------------------------------------
(* Characters *)

Digits == <<"0", "1", "2", "3", "4", "5", "6", "7", "8", "9">>
Upper == <<"A", "B", "C", "D", "E", "F", "G", "H", "I", "J", "K", "L", "M",
           "N", "O", "P", "Q", "R", "S", "T", "U", "V", "W", "X", "Y", "Z">>
Lower == <<"a", "b", "c", "d", "e", "f", "g", "h", "i", "j", "k", "l", "m",
           "n", "o", "p", "q", "r", "s", "t", "u", "v", "w", "x", "y", "z">>

DigitSet == {Digits[i] : i \in 1..10}
UpperSet == {Upper[i] : i \in 1..26}
LowerSet == {Lower[i] : i \in 1..26}
AlphaSet == UpperSet \cup LowerSet
SpaceSet == {" ", "\n", "\t"}

DigitVal(c) == (CHOOSE i \in 1..10 : Digits[i] = c) - 1

\* re.IGNORECASE compares characters after case folding
Fold(c) == IF c \in UpperSet THEN Lower[CHOOSE i \in 1..26 : Upper[i] = c] ELSE c

RECURSIVE Pow10(_)
Pow10(k) == IF k = 0 THEN 1 ELSE 10 * Pow10(k - 1)

\* canonical form of the decimal n / 10^k
RECURSIVE Canon(_, _)
Canon(n, k) == IF n = 0 THEN [n |-> 0, k |-> 0]
               ELSE IF k > 0 /\ n % 10 = 0 THEN Canon(n \div 10, k - 1)
               ELSE [n |-> n, k |-> k]

----------------------------------------------------------------------------
(* Regular-expression steps.  A position 0 means "no match so far"; each   *)
(* step passes a failure on.                                               *)

\* end of the longest run of characters of cls starting at i
RECURSIVE Munch(_, _, _)
Munch(s, i, cls) ==
    IF i <= Len(s) /\ s[i] \in cls THEN Munch(s, i + 1, cls) ELSE i

\* cls*  (greedy; every use is followed by a character outside cls)
Star(s, i, cls) == IF i = 0 THEN 0 ELSE Munch(s, i, cls)

\* cls+
Plus(s, i, cls) ==
    IF i = 0 THEN 0
    ELSE LET e == Munch(s, i, cls) IN IF e > i THEN e ELSE 0

\* c?
Opt(s, i, c) ==
    IF i = 0 THEN 0
    ELSE IF i <= Len(s) /\ s[i] = c THEN i + 1 ELSE i

\* a literal, case-sensitive
Lit(s, i, lit) ==
    IF i = 0 THEN 0
    ELSE IF i + Len(lit) - 1 <= Len(s)
            /\ \A k \in 1..Len(lit) : s[i + k - 1] = lit[k]
         THEN i + Len(lit) ELSE 0

\* a literal under re.IGNORECASE
LitI(s, i, lit) ==
    IF i = 0 THEN 0
    ELSE IF i + Len(lit) - 1 <= Len(s)
            /\ \A k \in 1..Len(lit) : Fold(s[i + k - 1]) = Fold(lit[k])
         THEN i + Len(lit) ELSE 0

\* exactly n characters of cls
Rep(s, i, cls, n) ==
    IF i = 0 THEN 0
    ELSE IF i + n - 1 <= Len(s) /\ \A k \in 0..(n - 1) : s[i + k] \in cls
         THEN i + n ELSE 0

Slice(s, a, b) == SubSeq(s, a, b - 1)

Least(S) == CHOOSE x \in S : \A y \in S : x <= y

\* str.strip()
Strip(s) ==
    LET nonsp == {i \in 1..Len(s) : s[i] \notin SpaceSet}
    IN  IF nonsp = {} THEN <<>>
        ELSE SubSeq(s, CHOOSE i \in nonsp : \A j \in nonsp : i <= j,
                       CHOOSE i \in nonsp : \A j \in nonsp : i >= j)

\* " ".join(text.split()) on the characters a..b of s: a character that is
\* no whitespace stays; the first character of a whitespace run stays, as one
\* space, when the run lies between two words (last is the end of the last
\* word); the rest goes
RECURSIVE NormRange(_, _, _, _)
NormRange(s, a, b, last) ==
    IF a > b THEN <<>>
    ELSE IF a = b
    THEN IF s[a] \notin SpaceSet THEN <<s[a]>>
         ELSE IF a > 1 /\ a < last /\ s[a - 1] \notin SpaceSet THEN <<" ">>
         ELSE <<>>
    ELSE LET mid == (a + b) \div 2
         IN  NormRange(s, a, mid, last) \o NormRange(s, mid + 1, b, last)

Normalize(s) ==
    LET words == {i \in 1..Len(s) : s[i] \notin SpaceSet}
    IN  IF words = {} THEN <<>>
        ELSE NormRange(s, 1, Len(s),
                       CHOOSE i \in words : \A j \in words : j <= i)

\* s with every character of cs removed (str.replace(c, ""))
RECURSIVE Remove(_, _)
Remove(s, cs) ==
    IF s = <<>> THEN <<>>
    ELSE IF Head(s) \in cs THEN Remove(Tail(s), cs)
    ELSE <<Head(s)>> \o Remove(Tail(s), cs)

----------------------------------------------------------------------------
(* float(str) for strings over digits, sign and point *)

RECURSIVE DigitsToInt(_, _)
DigitsToInt(s, acc) ==
    IF s = <<>> THEN acc ELSE DigitsToInt(Tail(s), 10 * acc + DigitVal(Head(s)))

\* float(s): [sign] digits [. digits] | [sign] . digits ; else ValueError
Float(s) ==
    IF s = <<>> THEN ValueError
    ELSE LET neg == s[1] = "-"
             a   == IF s[1] \in {"-", "+"} THEN 2 ELSE 1
             b   == Munch(s, a, DigitSet)
             c   == Opt(s, b, ".")
             d   == Munch(s, c, DigitSet)
             ds  == Slice(s, a, b) \o Slice(s, c, d)
         IN  IF d = Len(s) + 1 /\ ds # <<>>
             THEN LET n == DigitsToInt(ds, 0)
                  IN  Canon(IF neg THEN 0 - n ELSE n, d - c)
             ELSE ValueError

\* parse_money with the slip of answering 0.0 for an unparsable string
parse_money_zero(value) ==
    IF value = NullText \/ value = <<>> THEN None
    ELSE LET f == Float(Strip(Remove(value, {",", "$"})))
         IN  IF f = ValueError THEN Canon(0, 0) ELSE f

\* scrape_ideon_map.parse_money
parse_money(value) ==
    IF value = NullText \/ value = <<>> THEN None
    ELSE LET cleaned == Strip(Remove(value, {",", "$"}))
             f == Float(cleaned)
         IN  IF f = ValueError THEN None ELSE f

----------------------------------------------------------------------------
(* scrape_ideon_map.py: TOOLTIP_PATTERN and parse_tooltip *)

MoneyClass == DigitSet \cup {",", ".", "-"}        \* [\d,.-]
NumClass   == DigitSet \cup {","}                  \* [\d,]

\* the character class between "Ind" and "Small" as the source file spells
\* it: a hyphen and the three characters U+00E2, U+20AC, U+201C (with
\* re.IGNORECASE also U+00C2).  U+2013 EN DASH is not among them.
SepClass == {"-", "LATIN_SMALL_A_CIRCUMFLEX", "LATIN_CAPITAL_A_CIRCUMFLEX",
             "EURO_SIGN", "LEFT_DOUBLE_QUOTATION_MARK"}

\* the commas of a pattern that wrote [^,]* for [^,]+
CommaEnds_star(t) == {j \in 1..Len(t) : t[j] = ","}

\* the commas a match of ([^,]+), can end at: at least one non-comma before
CommaEnds(t) == {j \in 2..Len(t) : t[j] = "," /\ t[j - 1] # ","}

\* start of the [^,]+ run of the leftmost match ending at comma j
RunStart(t, j) ==
    LET before == {k \in 1..(j - 1) : t[k] = ","}
    IN  IF before = {} THEN 1
        ELSE 1 + CHOOSE k \in before : \A m \in before : m <= k

\* TOOLTIP_PATTERN matched with its comma at j: the group bounds, or
\* end = 0 when the pattern does not match there
StrictAt(t, j) ==
    LET st0 == Star(t, j + 1, SpaceSet)
        st1 == Rep(t, st0, AlphaSet, 2)                 \* [A-Z]{2}, IGNORECASE
        a1  == LitI(t, Star(t, st1, SpaceSet), <<"D", "i", "f", "f">>)
        a2  == LitI(t, Star(t, a1, SpaceSet), <<"(", "I", "n", "d">>)
        a3  == Rep(t, Star(t, a2, SpaceSet), SepClass, 1)
        a4  == LitI(t, Star(t, a3, SpaceSet),
                    <<"S", "m", "a", "l", "l", ")", ":">>)
        d0  == Opt(t, Star(t, a4, SpaceSet), "$")
        d1  == Plus(t, d0, MoneyClass)
        b1  == LitI(t, Star(t, d1, SpaceSet),
                    <<"I", "n", "d", "i", "v", "i", "d", "u", "a", "l", ":">>)
        i0  == Opt(t, Star(t, b1, SpaceSet), "$")
        i1  == Plus(t, i0, MoneyClass)
        c1  == LitI(t, Star(t, i1, SpaceSet), <<"S", "m", "a", "l", "l">>)
        c2  == LitI(t, Star(t, c1, SpaceSet), <<"G", "r", "o", "u", "p", ":">>)
        s0  == Opt(t, Star(t, c2, SpaceSet), "$")
        s1  == Plus(t, s0, MoneyClass)
    IN  [end |-> s1, st0 |-> st0, d0 |-> d0, d1 |-> d1,
         i0 |-> i0, i1 |-> i1, s0 |-> s0]

\* the groups of the match with its comma at j, m being StrictAt(t, j)
StrictGroups(t, j, m) ==
    [county      |-> Slice(t, RunStart(t, j), j),
     state       |-> Slice(t, m.st0, m.st0 + 2),
     diff        |-> Slice(t, m.d0, m.d1),
     individual  |-> Slice(t, m.i0, m.i1),
     small_group |-> Slice(t, m.s0, m.end)]

\* the leftmost of the matches with their commas at hits, or None
StrictFirst(t, hits) ==
    IF hits = {} THEN None
    ELSE StrictGroups(t, Least(hits), StrictAt(t, Least(hits)))

\* TOOLTIP_PATTERN.search(t): the leftmost match, or None
TOOLTIP_PATTERN_search(t) ==
    StrictFirst(t, {j \in CommaEnds(t) : StrictAt(t, j).end # 0})

\* the positions from i on where \$?([\d,]+\.?\d*) matches
NumberStarts(t, i) ==
    {p \in i..Len(t) :
        \/ t[p] \in NumClass
        \/ t[p] = "$" /\ p < Len(t) /\ t[p + 1] \in NumClass}

\* re.findall(r"\$?([\d,]+\.?\d*)", t) from position i on: the groups of
\* the successive non-overlapping matches
RECURSIVE FindNumbers(_, _)
FindNumbers(t, i) ==
    IF NumberStarts(t, i) = {} THEN <<>>
    ELSE LET p  == Least(NumberStarts(t, i))
             g0 == IF t[p] = "$" THEN p + 1 ELSE p
             g1 == Munch(t, g0, NumClass)
             g2 == Munch(t, Opt(t, g1, "."), DigitSet)
         IN  <<Slice(t, g0, g2)>> \o FindNumbers(t, g2)

\* re.search(r"([^,]+),\s*([A-Z]{2})", t): the comma of the leftmost match
SimpleAt(t, j) == Rep(t, Star(t, j + 1, SpaceSet), UpperSet, 2)

SimpleGroups(t, j, e) ==
    [county |-> Slice(t, RunStart(t, j), j), state |-> Slice(t, e - 2, e)]

SimpleFirst(t, hits) ==
    IF hits = {} THEN None
    ELSE SimpleGroups(t, Least(hits), SimpleAt(t, Least(hits)))

simple_search(t) ==
    SimpleFirst(t, {j \in CommaEnds(t) : SimpleAt(t, j) # 0})

\* the record built from the strict match or, without one, from the
\* "<county>, <ST>" pair and the numeric tokens
RecordOf(match, simple, numbers, n) ==
    IF match # None
    THEN [county              |-> Strip(match.county),
          state               |-> Strip(match.state),
          individual_premium  |-> parse_money(match.individual),
          small_group_premium |-> parse_money(match.small_group),
          difference          |-> parse_money(match.diff)]
    ELSE IF simple # None /\ n >= 2
    THEN [county              |-> Strip(simple.county),
          state               |-> Strip(simple.state),
          individual_premium  |->
              IF n >= 2 THEN parse_money(numbers[n - 1]) ELSE None,
          small_group_premium |->
              IF n >= 1 THEN parse_money(numbers[n]) ELSE None,
          difference          |->
              IF n >= 3 THEN parse_money(numbers[1]) ELSE None]
    ELSE None

\* parse_tooltip after text = " ".join(text.split())
ParseNormalized(t, numbers) ==
    RecordOf(TOOLTIP_PATTERN_search(t), simple_search(t), numbers,
             Len(numbers))

\* scrape_ideon_map.parse_tooltip
JoinSplit(raw, t) ==
    IF raw = NullText \/ raw = <<>> THEN None
    ELSE ParseNormalized(t, FindNumbers(t, 1))

parse_tooltip(raw) == JoinSplit(raw, Normalize(raw))

----------------------------------------------------------------------------
(* auto_verify.py: parse_tooltip *)

SignNumClass == DigitSet \cup {",", "-"}           \* [-\d,]

\* \s*\$?(<cls>+\.?\d*) from position i: the bounds of the group, a = 0
\* when it does not match
NumberGroup(t, i, cls) ==
    LET w  == Star(t, i, SpaceSet)
        g0 == IF w # 0 /\ w < Len(t) /\ t[w] = "$" /\ t[w + 1] \in cls
              THEN w + 1 ELSE w
        g1 == Plus(t, g0, cls)
    IN  IF g1 = 0 THEN [a |-> 0, b |-> 0]
        ELSE [a |-> g0, b |-> Munch(t, Opt(t, g1, "."), DigitSet)]

\* Diff[^:]*:\s*\$?([-\d,]+\.?\d*) starting at p
DiffAt(t, p) ==
    LET a == Lit(t, p, <<"D", "i", "f", "f">>)
        colons == {q \in 1..Len(t) : q >= a /\ t[q] = ":"}
    IN  IF a = 0 \/ colons = {} THEN [a |-> 0, b |-> 0]
        ELSE NumberGroup(t, Least(colons) + 1, SignNumClass)

\* Individual:\s*\$?([\d,]+\.?\d*) starting at p
IndAt(t, p) ==
    NumberGroup(t, Lit(t, p, <<"I", "n", "d", "i", "v", "i", "d", "u", "a",
                                "l", ":">>), NumClass)

\* Small\s*Group:\s*\$?([\d,]+\.?\d*) starting at p
SgAt(t, p) ==
    NumberGroup(t, Lit(t, Star(t, Lit(t, p, <<"S", "m", "a", "l", "l">>),
                               SpaceSet),
                       <<"G", "r", "o", "u", "p", ":">>), NumClass)

\* float(m.group(1).replace(",", "")) for the group with bounds g
FloatOfGroup(t, g) == Float(Remove(Slice(t, g.a, g.b), {","}))

\* the three fields: the leftmost match of the field's pattern, converted,
\* or None without a match
diff_value(t) ==
    LET hits == {p \in 1..Len(t) : DiffAt(t, p).a # 0}
    IN  IF hits = {} THEN None ELSE FloatOfGroup(t, DiffAt(t, Least(hits)))

ind_value(t) ==
    LET hits == {p \in 1..Len(t) : IndAt(t, p).a # 0}
    IN  IF hits = {} THEN None ELSE FloatOfGroup(t, IndAt(t, Least(hits)))

sg_value(t) ==
    LET hits == {p \in 1..Len(t) : SgAt(t, p).a # 0}
    IN  IF hits = {} THEN None ELSE FloatOfGroup(t, SgAt(t, Least(hits)))

\* auto_verify.parse_tooltip; a float() that raises ends the call with
\* ValueError
av_parse_tooltip(raw) ==
    IF raw = NullText \/ raw = <<>> THEN None
    ELSE LET t == Normalize(raw)
             county_match == simple_search(t)
             d  == diff_value(t)
             i  == ind_value(t)
             sg == sg_value(t)
         IN  IF county_match = None THEN None
             ELSE IF ValueError \in {d, i, sg} THEN ValueError
             ELSE [county      |-> Strip(county_match.county),
                   state       |-> Strip(county_match.state),
                   difference  |-> d,
                   individual  |-> i,
                   small_group |-> sg]


----------------------------------------------------------------------------
(* Python floats.  A float is an IEEE 754 double: [neg, m, e] stands for   *)
(* (-1)^neg * m * 2^e with 2^52 <= m < 2^53, and Zero for 0.0.  The        *)
(* mantissa does not fit a machine integer of the checker, so naturals are *)
(* kept as sequences of limbs in base 2^15, least significant first, with  *)
(* no leading zero limb.                                                   *)

Base == 32768
LimbBits == 15
MantBits == 53

RECURSIVE Pow2(_)
Pow2(k) == IF k = 0 THEN 1 ELSE 2 * Pow2(k - 1)

RECURSIVE BNorm(_)
BNorm(a) ==
    IF a # <<>> /\ a[Len(a)] = 0 THEN BNorm(SubSeq(a, 1, Len(a) - 1)) ELSE a

RECURSIVE BFromInt(_)
BFromInt(n) == IF n = 0 THEN <<>> ELSE <<n % Base>> \o BFromInt(n \div Base)

Limb(a, i) == IF i <= Len(a) THEN a[i] ELSE 0
Longer(a, b) == IF Len(a) >= Len(b) THEN Len(a) ELSE Len(b)

RECURSIVE MulFrom(_, _, _, _)
MulFrom(a, c, i, carry) ==
    IF i > Len(a) THEN BFromInt(carry)
    ELSE <<(a[i] * c + carry) % Base>>
         \o MulFrom(a, c, i + 1, (a[i] * c + carry) \div Base)

\* a * c for 0 <= c < Base
BMulSmall(a, c) == BNorm(MulFrom(a, c, 1, 0))

\* a \div c and a % c for 0 < c < Base, limb i downwards
RECURSIVE DivFrom(_, _, _, _)
DivFrom(a, c, i, rem) ==
    IF i = 0 THEN [q |-> <<>>, r |-> rem]
    ELSE LET cur   == rem * Base + a[i]
             lower == DivFrom(a, c, i - 1, cur % c)
         IN  [q |-> Append(lower.q, cur \div c), r |-> lower.r]

BDivSmall(a, c) ==
    LET d == DivFrom(a, c, Len(a), 0) IN [q |-> BNorm(d.q), r |-> d.r]

RECURSIVE AddFrom(_, _, _, _)
AddFrom(a, b, i, carry) ==
    IF i > Longer(a, b) THEN BFromInt(carry)
    ELSE <<(Limb(a, i) + Limb(b, i) + carry) % Base>>
         \o AddFrom(a, b, i + 1, (Limb(a, i) + Limb(b, i) + carry) \div Base)

BAdd(a, b) == BNorm(AddFrom(a, b, 1, 0))

\* a - b for a >= b
RECURSIVE SubFrom(_, _, _, _)
SubFrom(a, b, i, borrow) ==
    IF i > Len(a) THEN <<>>
    ELSE LET d == a[i] - Limb(b, i) - borrow
         IN  <<IF d < 0 THEN d + Base ELSE d>>
             \o SubFrom(a, b, i + 1, IF d < 0 THEN 1 ELSE 0)

BSub(a, b) == BNorm(SubFrom(a, b, 1, 0))

\* a < b
BLess(a, b) ==
    \/ Len(a) < Len(b)
    \/ /\ Len(a) = Len(b)
       /\ \E i \in 1..Len(a) :
             /\ a[i] < b[i]
             /\ \A j \in (i + 1)..Len(a) : a[j] = b[j]

RECURSIVE SmallBitLen(_)
SmallBitLen(n) == IF n = 0 THEN 0 ELSE 1 + SmallBitLen(n \div 2)

BitLen(a) ==
    IF a = <<>> THEN 0 ELSE LimbBits * (Len(a) - 1) + SmallBitLen(a[Len(a)])

\* a * 2^k
BShl(a, k) ==
    IF a = <<>> THEN <<>>
    ELSE [i \in 1..(k \div LimbBits) |-> 0]
         \o BMulSmall(a, Pow2(k % LimbBits))

\* a \div 2^k, and whether a one bit was shifted out
BShr(a, k) ==
    LET w    == k \div LimbBits
        high == IF w >= Len(a) THEN <<>> ELSE SubSeq(a, w + 1, Len(a))
        d    == BDivSmall(high, Pow2(k % LimbBits))
    IN  [q    |-> d.q,
         lost |-> d.r # 0 \/ \E i \in 1..Len(a) : i <= w /\ a[i] # 0]

BOdd(a) == a # <<>> /\ a[1] % 2 = 1

Zero == [neg |-> FALSE, m |-> <<>>, e |-> 0]

\* the double nearest to (n + f) * 2^e, ties to even, where 0 <= f < 1 and
\* sticky says that f > 0; with sticky, n has more than MantBits bits
RoundToDouble(neg, n, sticky, e) ==
    IF n = <<>> THEN Zero
    ELSE IF BitLen(n) <= MantBits
    THEN [neg |-> neg, m |-> BShl(n, MantBits - BitLen(n)),
          e |-> e - (MantBits - BitLen(n))]
    ELSE LET drop == BitLen(n) - MantBits
             h    == BShr(n, drop - 1)
             q    == BShr(h.q, 1).q
             up   == BOdd(h.q) /\ (h.lost \/ sticky \/ BOdd(q))
             m    == IF up THEN BAdd(q, <<1>>) ELSE q
         IN  IF BitLen(m) > MantBits
             THEN [neg |-> neg, m |-> BShr(m, 1).q, e |-> e + drop + 1]
             ELSE [neg |-> neg, m |-> m, e |-> e + drop]

\* n \div 10^k with the remainders or-ed into lost
RECURSIVE DivPow10(_, _, _)
DivPow10(n, k, lost) ==
    IF k = 0 THEN [q |-> n, lost |-> lost]
    ELSE LET d == BDivSmall(n, 10)
         IN  DivPow10(d.q, k - 1, lost \/ d.r # 0)

Guard == 75

\* float("<n / 10^k>"), json.load of the number n / 10^k: the nearest double
ToDouble(dec) ==
    LET abs == IF dec.n < 0 THEN 0 - dec.n ELSE dec.n
        d   == DivPow10(BShl(BFromInt(abs), Guard), dec.k, FALSE)
    IN  RoundToDouble(dec.n < 0, d.q, d.lost, 0 - Guard)

\* |a| < |b|
MagLess(a, b) ==
    IF b.m = <<>> THEN FALSE
    ELSE IF a.m = <<>> THEN TRUE
    ELSE a.e < b.e \/ (a.e = b.e /\ BLess(a.m, b.m))

\* a < b for doubles
DLess(a, b) ==
    IF a.neg /\ ~b.neg THEN a.m # <<>> \/ b.m # <<>>
    ELSE IF ~a.neg /\ b.neg THEN FALSE
    ELSE IF a.neg THEN MagLess(b, a)
    ELSE MagLess(a, b)

LeastExp(a, b) == IF a.e <= b.e THEN a.e ELSE b.e

\* a - b, rounded
DSub(a, b) ==
    IF b.m = <<>> THEN a
    ELSE IF a.m = <<>> THEN [b EXCEPT !.neg = ~b.neg]
    ELSE LET e0 == LeastExp(a, b)
             A  == BShl(a.m, a.e - e0)
             B  == BShl(b.m, b.e - e0)
         IN  IF a.neg # b.neg
             THEN RoundToDouble(a.neg, BAdd(A, B), FALSE, e0)
             ELSE IF BLess(A, B)
             THEN RoundToDouble(~a.neg, BSub(B, A), FALSE, e0)
             ELSE RoundToDouble(a.neg, BSub(A, B), FALSE, e0)

\* abs(a)
DAbs(a) == [a EXCEPT !.neg = FALSE]

----------------------------------------------------------------------------
(* Tooltip texts under test.  An input says what is written in the text;   *)
(* Render spells the text out.                                             *)

W_Diff       == <<"D", "i", "f", "f">>
W_Ind        == <<"(", "I", "n", "d">>
W_SmallC     == <<"S", "m", "a", "l", "l", ")", ":">>
W_Individual == <<"I", "n", "d", "i", "v", "i", "d", "u", "a", "l", ":">>
W_Small      == <<"S", "m", "a", "l", "l">>
W_Group      == <<"G", "r", "o", "u", "p", ":">>
W_Difference == <<"D", "i", "f", "f", "e", "r", "e", "n", "c", "e", ":">>

Counties == {<<"A", "d", "a">>, <<"B", "a", "y", " ", "C", "o">>}
States   == {<<"C", "A">>, <<"T", "X">>}
Seps     == {<<"-">>, <<"EN_DASH">>}
Spaces   == {<<" ">>, <<"\n">>, <<" ", "\n", "\t">>}

\* an amount as written and the value it denotes
Amt(str, n, k) == [str |-> str, val |-> [n |-> n, k |-> k]]
A_605  == Amt(<<"6", "0", "5", ".", "6", "4">>, 60564, 2)
A_1414 == Amt(<<"1", ",", "4", "1", "4", ".", "5", "0">>, 14145, 1)
A_808  == Amt(<<"8", "0", "8", ".", "8", "6">>, 80886, 2)
A_700  == Amt(<<"7", "0", "0">>, 700, 0)
A_neg  == Amt(<<"-", "4", "7", ".", "6", "2">>, 0 - 4762, 2)

Diffs    == {A_605, A_neg}
Premiums == {A_1414, A_808, A_700}

\* amount lists of the lenient texts, by length
AmtLists == {<<>>, <<A_700>>, <<A_1414, A_808>>, <<A_700, A_1414>>,
             <<A_605, A_1414, A_808>>, <<A_808, A_700, A_1414>>,
             <<A_605, A_700, A_808, A_1414>>}

StrictInputs ==
    [kind : {"strict"}, county : Counties, state : States, sep : Seps,
     ws : Spaces, diff : Diffs, individual : Premiums, small_group : Premiums]

\* layouts of a lenient text: "labelled" writes "<label> $<amount>" per
\* amount, "bare" writes the amounts alone, "commas" separates labelled
\* amounts with commas, "first" writes the amounts before the pair
LenientInputs ==
    [kind : {"lenient"}, county : Counties, state : States,
     layout : {"labelled", "bare", "commas", "first"}, amts : AmtLists]

\* texts without a "<text>, <two letters>" pair
NoPairTexts ==
    {<<"N", "o", " ", "d", "a", "t", "a">>,
     <<"$", "6", "0", "5", ".", "6", "4", " ", "$", "8", "0", "8", ".", "8", "6">>,
     <<"I", "n", "d", "i", "v", "i", "d", "u", "a", "l", ":", " ", "$", "1", ",", "4", "1", "4", ".", "5", "0", " ", "S", "m", "a", "l", "l", " ", "G", "r", "o", "u", "p", ":", " ", "$", "8", "0", "8", ".", "8", "6">>,
     <<"A", "d", "a", " ", "T", "X", " ", "D", "i", "f", "f", " ", "(", "I", "n", "d", " ", "-", " ", "S", "m", "a", "l", "l", ")", ":", " ", "$", "1", " ", "I", "n", "d", "i", "v", "i", "d", "u", "a", "l", ":", " ", "$", "2", " ", "S", "m", "a", "l", "l", " ", "G", "r", "o", "u", "p", ":", " ", "$", "3">>,
     <<",", " ", "T", "X", " ", "$", "5", " ", "$", "6">>,
     <<"A", "d", "a", ",", " ", "T", " ", "$", "5", " ", "$", "6">>,
     <<"A", "d", "a", ",", ",", " ", "T", "X", " ", "$", "5", " ", "$", "6", " ", "$", "7">>,
     <<"A", "d", "a", ";", " ", "T", "X", "\n", "$", "5", " ", "$", "6", " ", "$", "7">>}

NoPairInputs ==
    [kind : {"nopair"}, raw : NoPairTexts]
    \cup [kind : {"empty"}, raw : {<<>>, <<" ">>, <<"\n", " ">>}]
    \cup [kind : {"null"}, raw : {NullText}]

\* further shapes: a pair in lower case inside an otherwise strict text, and
\* amounts the verifier cannot convert
OtherTexts ==
    {<<"a", "d", "a", ",", " ", "t", "x", " ", "d", "i", "f", "f", " ", "(", "i", "n", "d", " ", "-", " ", "s", "m", "a", "l", "l", ")", ":", " ", "$", "1", " ", "i", "n", "d", "i", "v", "i", "d", "u", "a", "l", ":", " ", "$", "2", " ", "s", "m", "a", "l", "l", " ", "g", "r", "o", "u", "p", ":", " ", "$", "3">>,
     <<"A", "d", "a", ",", " ", "T", "X", " ", "D", "i", "f", "f", ":", " ", "$", "-", " ", "I", "n", "d", "i", "v", "i", "d", "u", "a", "l", ":", " ", "$", "7", "0", "0", " ", "S", "m", "a", "l", "l", " ", "G", "r", "o", "u", "p", ":", " ", "$", "8", "0", "8", ".", "8", "6">>,
     <<"A", "d", "a", ",", " ", "T", "X", " ", "D", "i", "f", "f", " ", "(", "I", "n", "d", " ", "-", " ", "S", "m", "a", "l", "l", ")", ":", " ", "$", "6", "0", "5", ".", "6", "4", " ", "I", "n", "d", "i", "v", "i", "d", "u", "a", "l", ":", " ", "$", "7", "0", "0", " ", "S", "m", "a", "l", "l", " ", "G", "r", "o", "u", "p", ":", " ", "$", "8", "0", "8", ".", "8", "6", ".">>}

OtherInputs == [kind : {"other"}, raw : OtherTexts]

TextInputs == StrictInputs \cup LenientInputs \cup NoPairInputs \cup OtherInputs

Join3(a, b, c) == a \o b \o c

\* the labels of a lenient text with n amounts
Labels(n) ==
    IF n = 1 THEN <<W_Individual>>
    ELSE IF n = 2 THEN <<W_Individual, W_Small \o <<" ">> \o W_Group>>
    ELSE IF n = 3 THEN <<W_Difference, W_Individual,
                         W_Small \o <<" ">> \o W_Group>>
    ELSE [i \in 1..n |-> W_Individual]

RECURSIVE RenderAmts(_, _, _)
RenderAmts(amts, layout, i) ==
    IF i > Len(amts) THEN <<>>
    ELSE (IF layout \in {"labelled", "commas"}
          THEN <<" ">> \o Labels(Len(amts))[i] ELSE <<>>)
         \o <<" ", "$">> \o amts[i].str
         \o (IF layout = "commas" /\ i < Len(amts) THEN <<",">> ELSE <<>>)
         \o RenderAmts(amts, layout, i + 1)

Render(in) ==
    IF in.kind = "strict"
    THEN in.county \o <<",">> \o in.ws \o in.state \o in.ws
         \o W_Diff \o in.ws \o W_Ind \o in.ws \o in.sep \o in.ws \o W_SmallC
         \o in.ws \o <<"$">> \o in.diff.str \o in.ws
         \o W_Individual \o in.ws \o <<"$">> \o in.individual.str \o in.ws
         \o W_Small \o in.ws \o W_Group \o in.ws
         \o <<"$">> \o in.small_group.str
    ELSE IF in.kind = "lenient"
    THEN IF in.layout = "first"
         THEN RenderAmts(in.amts, "bare", 1) \o <<" ">>
              \o in.county \o <<",", " ">> \o in.state
         ELSE in.county \o <<",", " ">> \o in.state
              \o RenderAmts(in.amts, in.layout, 1)
    ELSE in.raw

----------------------------------------------------------------------------
(* Arguments of parse_money under test: every string of at most            *)
(* MaxMoneyLen characters of MoneyAlphabet, the money strings of the       *)
(* tooltips, and None                                                      *)

MaxMoneyLen == 3
MoneyAlphabet == {"$", ",", ".", "-", "+", "1", "0", " ", "x"}

RECURSIVE StringsUpTo(_, _)
StringsUpTo(alphabet, n) ==
    IF n = 0 THEN {<<>>}
    ELSE LET shorter == StringsUpTo(alphabet, n - 1)
         IN  shorter \cup {Append(w, c) : w \in shorter, c \in alphabet}

MoneyInputs ==
    StringsUpTo(MoneyAlphabet, MaxMoneyLen)
    \cup {<<"$", "1", ",", "4", "1", "4", ".", "5", "0">>, <<"$", "6", "0", "5", ".", "6", "4">>, <<"-", "4", "7", ".", "6", "2">>, <<"$", " ", "8", "0", "8", ".", "8", "6", " ">>, <<"1", ".", "2", ".", "3">>, <<"1", "2", "-", "3">>, NullText}

----------------------------------------------------------------------------
(* The parts of the state a script does not touch stay as they are here *)

IdleParse ==
    /\ input = [kind |-> "none"]
    /\ text = <<>>
    /\ rec = Unset
    /\ vrec = Unset
    /\ money = NullText
    /\ amount = Unset

IdleScan ==
    /\ scanner = "none"
    /\ paths = 0
    /\ idx = 0
    /\ box = [x |-> 0, y |-> 0, width |-> 0, height |-> 0]
    /\ gx = 0
    /\ gy = 0
    /\ results = <<>>
    /\ seen = {}
    /\ found_counties = <<>>
    /\ fed = <<>>

IdleVerify ==
    /\ our_data = <<>>
    /\ our_lookup = <<>>
    /\ mismatches = 0
    /\ ci = 0
    /\ report = <<>>
    /\ retval = Unset

IdleAgg ==
    /\ agg_data = <<>>
    /\ agg_year = 0
    /\ agg_out = Unset

\* no output file
NoCsv == [written |-> FALSE, rows |-> <<>>]

IdleRun ==
    /\ script = "none"
    /\ page = "any"
    /\ browser = "none"
    /\ svg_paths = 0
    /\ canvas_elements = 0
    /\ ran = <<>>

IdleFile ==
    /\ cache_exists = FALSE
    /\ cache_file = <<>>
    /\ fetches = 0
    /\ returned = <<>>
    /\ csv = NoCsv

----------------------------------------------------------------------------
(* The parsers run on one input *)

InitParse ==
    /\ \/ /\ input \in TextInputs
          /\ money = NullText
          /\ pc = "tooltip"
       \/ /\ input = [kind |-> "money"]
          /\ money \in MoneyInputs
          /\ pc = "money"
    /\ text = IF pc = "tooltip" THEN Render(input) ELSE <<>>
    /\ rec = Unset
    /\ vrec = Unset
    /\ amount = Unset
    /\ IdleScan
    /\ IdleVerify
    /\ IdleAgg
    /\ IdleRun
    /\ IdleFile

\* scrape_ideon_map.parse_tooltip(text)
ParseTooltip ==
    /\ pc = "tooltip"
    /\ rec = Unset
    /\ rec' = parse_tooltip(text)
    /\ UNCHANGED <<pc, input, text, vrec, money, amount, scanVars, verifyVars, aggVars, runVars, fileVars>>

\* auto_verify.parse_tooltip(text)
VerifierParseTooltip ==
    /\ pc = "tooltip"
    /\ vrec = Unset
    /\ vrec' = av_parse_tooltip(text)
    /\ UNCHANGED <<pc, input, text, rec, money, amount, scanVars, verifyVars, aggVars, runVars, fileVars>>

\* parse_money(money)
ParseMoney ==
    /\ pc = "money"
    /\ amount = Unset
    /\ amount' = parse_money(money)
    /\ UNCHANGED <<pc, input, text, rec, vrec, money, scanVars, verifyVars, aggVars, runVars, fileVars>>

NextParse == ParseTooltip \/ VerifierParseTooltip \/ ParseMoney

SpecParse == InitParse /\ [][NextParse]_vars

----------------------------------------------------------------------------
(* Claims about the parsers *)

Parsed == pc = "tooltip" /\ rec # Unset

\* C1: a strict-format text, with a hyphen or an en dash between Ind and
\* Small and any whitespace between the parts, is parsed into the county,
\* the state and the three amounts written in it, none absent
C1_StrictRecovered ==
    (Parsed /\ input.kind = "strict") =>
        rec = [county              |-> input.county,
               state               |-> input.state,
               individual_premium  |-> input.individual.val,
               small_group_premium |-> input.small_group.val,
               difference          |-> input.diff.val]

\* C2: a text that fails the strict pattern, has a pair and exactly two
\* dollar amounts gives difference absent, individual_premium the first
\* amount and small_group_premium the second
C2_TwoAmounts ==
    (Parsed /\ input.kind = "lenient" /\ Len(input.amts) = 2) =>
        /\ rec # None
        /\ rec.difference = None
        /\ rec.individual_premium = input.amts[1].val
        /\ rec.small_group_premium = input.amts[2].val

\* C3: in the fallback, a text with a pair and at least three dollar amounts
\* gives difference the first amount, individual_premium the second-to-last
\* and small_group_premium the last
C3_ThreeAmounts ==
    (Parsed /\ input.kind = "lenient" /\ Len(input.amts) >= 3) =>
        /\ rec # None
        /\ rec.difference = input.amts[1].val
        /\ rec.individual_premium = input.amts[Len(input.amts) - 1].val
        /\ rec.small_group_premium = input.amts[Len(input.amts)].val

\* C21: in the fallback, a text with a pair and fewer than two dollar
\* amounts (none or one) gives None, never a record
C21_FewerThanTwoIsNone ==
    (Parsed /\ input.kind = "lenient" /\ Len(input.amts) < 2) =>
        rec = None

\* what is left of a money string once "$" and "," are gone
Stripped(m) == Strip(SelectSeq(m, LAMBDA c : c \notin {"$", ","}))

\* r reads as a signed decimal: an optional sign, then digits with at most
\* one point among them and at least one digit
IsSignedDecimal(r) ==
    /\ r # <<>>
    /\ LET body == IF r[1] \in {"+", "-"} THEN Tail(r) ELSE r
           dots == {i \in DOMAIN body : body[i] = "."}
       IN  /\ Cardinality(dots) <= 1
           /\ DOMAIN body \ dots # {}
           /\ \A i \in DOMAIN body \ dots : body[i] \in DigitSet

\* the value of a signed decimal: every digit weighs ten to the number of
\* digits after it; the digits after the point give the scale
RECURSIVE WeighDigits(_, _)
WeighDigits(r, at) ==
    IF at = {} THEN 0
    ELSE LET i == CHOOSE x \in at : TRUE
         IN  DigitVal(r[i]) * Pow10(Cardinality({j \in DOMAIN r :
                                        j > i /\ r[j] \in DigitSet}))
             + WeighDigits(r, at \ {i})

SignedDecimalValue(r) ==
    LET n == WeighDigits(r, {i \in DOMAIN r : r[i] \in DigitSet})
        scale == IF \E d \in DOMAIN r : r[d] = "."
                 THEN Cardinality({j \in DOMAIN r : r[j] \in DigitSet
                                     /\ \E d \in 1..(j - 1) : r[d] = "."})
                 ELSE 0
    IN  Canon(IF r[1] = "-" THEN 0 - n ELSE n, scale)

C5_NoPairIsNone ==
    (pc = "tooltip" /\ input.kind \in {"nopair", "empty", "null"}) =>
        /\ rec # Unset => rec = None
        /\ vrec # Unset => vrec = None

C5_Witness ==
    /\ pc = "tooltip"
    /\ input.kind = "nopair"
    /\ text = <<"A", "d", "a", ",", ",", " ", "T", "X", " ", "$", "5", " ", "$", "6", " ", "$", "7">>
    /\ rec = None
    /\ vrec = None

----------------------------------------------------------------------------
(* The three scan loops: scrape_svg_map, scrape_canvas_map and the grid    *)
(* scan of auto_verify.verify.  What the page shows at an element is the   *)
(* environment's choice.                                                   *)

MaxPaths == 3

step_x == 8
step_y == 8
step == 15
margin == 20
SampleTarget == 20

\* args.year, args.age, args.metal
args == [year |-> 2026, age |-> 50, metal |-> "gold"]

S_AdaFirst  == <<"A", "d", "a", ",", " ", "T", "X", " ", "I", "n", "d", "i", "v", "i", "d", "u", "a", "l", ":", " ", "$", "7", "0", "0", " ", "S", "m", "a", "l", "l", " ", "G", "r", "o", "u", "p", ":", " ", "$", "8", "0", "8", ".", "8", "6">>
S_AdaSecond == <<"A", "d", "a", ",", " ", "T", "X", " ", "I", "n", "d", "i", "v", "i", "d", "u", "a", "l", ":", " ", "$", "1", ",", "4", "1", "4", ".", "5", "0", " ", "S", "m", "a", "l", "l", " ", "G", "r", "o", "u", "p", ":", " ", "$", "7", "0", "0">>
S_Bay       == <<"B", "a", "y", " ", "C", "o", ",", " ", "C", "A", " ", "I", "n", "d", "i", "v", "i", "d", "u", "a", "l", ":", " ", "$", "8", "0", "8", ".", "8", "6", " ", "S", "m", "a", "l", "l", " ", "G", "r", "o", "u", "p", ":", " ", "$", "7", "0", "0">>
S_NoPair    == <<"N", "o", " ", "d", "a", "t", "a", " ", "$", "5">>
S_NoCounty  == <<"x", ",", " ", ",", " ", "T", "X", " ", "I", "n", "d", "i", "v", "i", "d", "u", "a", "l", ":", " ", "$", "5", " ", "S", "m", "a", "l", "l", " ", "G", "r", "o", "u", "p", ":", " ", "$", "6">>
S_BadDiff   == <<"A", "d", "a", ",", " ", "T", "X", " ", "D", "i", "f", "f", ":", " ", "$", "-", " ", "I", "n", "d", "i", "v", "i", "d", "u", "a", "l", ":", " ", "$", "7", "0", "0">>

ScanTexts == {S_AdaFirst, S_AdaSecond, S_Bay, S_NoPair, S_NoCounty, S_BadDiff}

\* if svg_paths > 100 / if len(results) < 50 of scrape_map
PathThreshold == 100
FallbackThreshold == 50

\* A numbered page shows county number k ("Aa", "Ab", ...) of Texas at
\* its k-th place; a paired page shows every county at two places running.
NumberedCounty(k) ==
    <<Upper[((k - 1) \div 26) + 1], Lower[((k - 1) % 26) + 1]>>

NumberedText(k) ==
    NumberedCounty(k)
    \o <<",", " ", "T", "X", " ", "I", "n", "d", "i", "v", "i", "d", "u", "a", "l", ":", " ", "$", "7", "0", "0", " ", "S", "m", "a", "l", "l", " ", "G", "r", "o", "u", "p", ":", " ", "$", "8", "0", "8", ".", "8", "6">>

NumberedTexts == {NumberedText(k) : k \in 1..FallbackThreshold}

CountyAt(pg, i) ==
    IF pg = "paired" THEN ((((i + 1) \div 2) - 1) % FallbackThreshold) + 1
    ELSE ((i - 1) % FallbackThreshold) + 1

\* the parsers' answers on the texts of the page
ScanParsed == [t \in ScanTexts \cup NumberedTexts |-> parse_tooltip(t)]
ScanParsedByVerifier ==
    [t \in ScanTexts \cup NumberedTexts |-> av_parse_tooltip(t)]

Tooltips == [kind : {"tooltip"}, text : ScanTexts]

\* what can happen at one path: no or a degenerate bounding box, a hover
\* that times out or fails otherwise, no tooltip, a tooltip
SvgOutcomes ==
    [kind : {"degenerate", "timeout", "error", "no_tooltip"}] \cup Tooltips

\* at one grid point of the canvas: a pointer move that fails, no tooltip,
\* a tooltip
CanvasOutcomes == [kind : {"error", "no_tooltip"}] \cup Tooltips

\* at one grid point of the verifier: the same
VerifyOutcomes == [kind : {"error", "no_tooltip"}] \cup Tooltips

\* on a numbered or paired page path i shows its county, a grid point of
\* the canvas the next county, a grid point of the verifier the next
\* county or nothing
SvgOutcomesAt(pg, i) ==
    IF pg = "any" THEN SvgOutcomes
    ELSE {[kind |-> "tooltip", text |-> NumberedText(CountyAt(pg, i))]}

CanvasOutcomesAt(pg, n) ==
    IF pg = "any" THEN CanvasOutcomes
    ELSE {[kind |-> "tooltip", text |-> NumberedText(CountyAt(pg, n))]}

VerifyOutcomesAt(pg, n) ==
    IF pg = "any" THEN VerifyOutcomes
    ELSE {[kind |-> "no_tooltip"],
          [kind |-> "tooltip", text |-> NumberedText(CountyAt(pg, n))]}

CanvasBoxes ==
    [x : {0, 3}, y : {0}, width : {8, 17}, height : {8, 9}]
VerifyBoxes ==
    [x : {0, 3}, y : {0}, width : {41, 56}, height : {41, 56}]

\* range(first, last, by) of the grid loops
GridX0(sc, b)   == IF sc = "verify" THEN b.x + margin ELSE b.x
GridXEnd(sc, b) == IF sc = "verify" THEN b.x + b.width - margin
                   ELSE b.x + b.width
GridY0(sc, b)   == IF sc = "verify" THEN b.y + margin ELSE b.y
GridYEnd(sc, b) == IF sc = "verify" THEN b.y + b.height - margin
                   ELSE b.y + b.height
StepX(sc) == IF sc = "verify" THEN step ELSE step_x
StepY(sc) == IF sc = "verify" THEN step ELSE step_y

\* the loops have a grid point left to visit
GridLeft == gy < GridYEnd(scanner, box) /\ gx < GridXEnd(scanner, box)

\* the inner loop goes on in x, or ends and the outer one goes on in y
GridAdvance ==
    IF gx + StepX(scanner) < GridXEnd(scanner, box)
    THEN /\ gx' = gx + StepX(scanner)
         /\ gy' = gy
    ELSE /\ gx' = GridX0(scanner, box)
         /\ gy' = gy + StepY(scanner)

\* f"{data['county']}, {data['state']}"
Key(data) == data.county \o <<",", " ">> \o data.state

\* data["year"] = args.year; data["age"] = args.age; data["metal"] = ...
WithArgs(data) ==
    [county |-> data.county, state |-> data.state,
     individual_premium |-> data.individual_premium,
     small_group_premium |-> data.small_group_premium,
     difference |-> data.difference,
     year |-> args.year, age |-> args.age, metal |-> args.metal]

\* the key test with the slip of letting a later sample replace the record
Keep_overwrite(data) ==
    /\ fed' = Append(fed, data)
    /\ seen' = seen \cup {Key(data)}
    /\ results' =
          IF Key(data) \notin seen THEN Append(results, WithArgs(data))
          ELSE [k \in 1..Len(results) |->
                   IF Key(results[k]) = Key(data) THEN WithArgs(data)
                   ELSE results[k]]

\* scrape_svg_map: if key not in seen: seen.add(key); ...;
\* results.append(data)
Keep(data) ==
    /\ fed' = Append(fed, data)
    /\ IF Key(data) \notin seen
       THEN /\ seen' = seen \cup {Key(data)}
            /\ results' = Append(results, WithArgs(data))
       ELSE UNCHANGED <<seen, results>>

\* scrape_svg_map: if data: key = ...; if key not in seen: ...
KeepIfData(data) ==
    IF data # None THEN Keep(data) ELSE UNCHANGED <<seen, results, fed>>

\* scrape_svg_map: if tooltip_text: data = parse_tooltip(tooltip_text);
\* if data: ...
Sample(o) ==
    IF o.kind = "tooltip" THEN KeepIfData(ScanParsed[o.text])
    ELSE UNCHANGED <<seen, results, fed>>

\* scrape_canvas_map: if key not in seen: seen.add(key); ...;
\* results.append(data)
CanvasKeep(data) ==
    /\ fed' = Append(fed, data)
    /\ IF Key(data) \notin seen
       THEN /\ seen' = seen \cup {Key(data)}
            /\ results' = Append(results, WithArgs(data))
       ELSE UNCHANGED <<seen, results>>

\* scrape_canvas_map: if data: key = ...; if key not in seen: ...
CanvasKeepIfData(data) ==
    IF data # None THEN CanvasKeep(data) ELSE UNCHANGED <<seen, results, fed>>

\* scrape_canvas_map: if tooltip_text: data = parse_tooltip(tooltip_text);
\* if data: ...
CanvasSample(o) ==
    IF o.kind = "tooltip" THEN CanvasKeepIfData(ScanParsed[o.text])
    ELSE UNCHANGED <<seen, results, fed>>

InitScan ==
    /\ pc = "scan"
    /\ IdleParse
    /\ scanner \in {"svg", "canvas", "verify"}
    /\ paths \in IF scanner = "svg" THEN 0..MaxPaths ELSE {0}
    /\ idx = 0
    /\ box \in IF scanner = "canvas" THEN CanvasBoxes
               ELSE IF scanner = "verify" THEN VerifyBoxes
               ELSE {[x |-> 0, y |-> 0, width |-> 0, height |-> 0]}
    /\ gx = GridX0(scanner, box)
    /\ gy = GridY0(scanner, box)
    /\ results = <<>>
    /\ seen = {}
    /\ found_counties = <<>>
    /\ fed = <<>>
    /\ IdleVerify
    /\ IdleAgg
    /\ script = IF scanner = "verify" THEN "verify" ELSE "scrape"
    /\ page = "any"
    /\ browser = "open"
    /\ svg_paths = 0
    /\ canvas_elements = 0
    /\ ran = <<>>
    /\ IdleFile

\* scrape_svg_map: one iteration of "for i, path in enumerate(paths)"
SvgPath ==
    /\ pc = "scan" /\ scanner = "svg" /\ idx < paths
    /\ \E o \in SvgOutcomesAt(page, idx + 1) : Sample(o)
    /\ idx' = idx + 1
    /\ UNCHANGED <<pc, parseVars, verifyVars, aggVars, runVars, fileVars, scanner, paths, box, gx, gy,
                   found_counties>>

\* scrape_canvas_map: one iteration of the inner loop over x
CanvasPoint ==
    /\ pc = "scan" /\ scanner = "canvas" /\ GridLeft
    /\ \E o \in CanvasOutcomesAt(page, Len(results) + 1) : CanvasSample(o)
    /\ GridAdvance
    /\ UNCHANGED <<pc, parseVars, verifyVars, aggVars, runVars, fileVars, scanner, paths, idx, box,
                   found_counties>>

\* the slip of stopping one county late
EnoughCounties_late(n) == n > SampleTarget

\* if len(found_counties) >= 20: break, in the inner and in the outer loop
EnoughCounties(n) == n >= SampleTarget

\* auto_verify.verify: one iteration of the inner loop over x.  The pointer
\* move and parse_tooltip are not guarded: when one raises, verify ends
\* with the exception.
VerifyPoint ==
    /\ pc = "scan" /\ scanner = "verify" /\ GridLeft
    /\ \E o \in VerifyOutcomesAt(page, Len(found_counties) + 1) :
        LET data == IF o.kind = "tooltip" THEN ScanParsedByVerifier[o.text]
                    ELSE None
            key  == Key(data)
            new  == \A e \in 1..Len(found_counties) :
                        found_counties[e].key # key
        IN  IF o.kind = "error" \/ data = ValueError
            THEN /\ pc' = "raised"
                 /\ UNCHANGED <<gx, gy, found_counties, fed>>
            ELSE IF data # None /\ data.county # <<>>
            THEN /\ fed' = Append(fed, data)
                 /\ found_counties' =
                        IF new THEN Append(found_counties,
                                           [key |-> key, data |-> data])
                        ELSE found_counties
                 /\ IF new /\ EnoughCounties(Len(found_counties) + 1)
                    THEN pc' = "scanned" /\ UNCHANGED <<gx, gy>>
                    ELSE pc' = pc /\ GridAdvance
            ELSE /\ GridAdvance
                 /\ UNCHANGED <<pc, found_counties, fed>>
    /\ UNCHANGED <<parseVars, verifyVars, aggVars, runVars, fileVars, scanner, paths, idx, box, results,
                   seen>>

\* the loop is over: scrape_svg_map and scrape_canvas_map return results,
\* verify goes on to the comparison
ScanEnd ==
    /\ pc = "scan"
    /\ \/ scanner = "svg" /\ idx >= paths
       \/ scanner \in {"canvas", "verify"} /\ ~GridLeft
    /\ pc' = "scanned"
    /\ UNCHANGED <<parseVars, scanVars, verifyVars, aggVars, runVars, fileVars>>

NextScan == SvgPath \/ CanvasPoint \/ VerifyPoint \/ ScanEnd

SpecScan == InitScan /\ [][NextScan]_vars

----------------------------------------------------------------------------
(* Claims about the scans *)

\* the first sample fed with the key k
FirstFed(k) == fed[Least({i \in 1..Len(fed) : Key(fed[i]) = k})]

FedKeys == {Key(fed[i]) : i \in 1..Len(fed)}

\* C6: whatever samples a scan is fed, its output holds one record per
\* (county, state) key, in the order the keys were first seen, and the record
\* of a key is the first sample seen with it: later samples with the key
\* neither replace it nor lengthen the output
C6_FirstSeenWins ==
    /\ scanner \in {"svg", "canvas"} =>
        /\ Len(results) = Cardinality(FedKeys)
        /\ \A k \in 1..Len(results) :
              /\ Key(results[k]) \in FedKeys
              /\ results[k] = WithArgs(FirstFed(Key(results[k])))
              /\ \A m \in 1..Len(results) :
                    Key(results[m]) = Key(results[k]) => m = k
    /\ scanner = "verify" =>
        /\ Len(found_counties) = Cardinality(FedKeys)
        /\ \A k \in 1..Len(found_counties) :
              /\ found_counties[k].key \in FedKeys
              /\ found_counties[k].data = FirstFed(found_counties[k].key)
              /\ \A m \in 1..Len(found_counties) :
                    found_counties[m].key = found_counties[k].key => m = k

\* a scan was fed the same key twice with different values and kept one
C6_Witness ==
    /\ scanner = "svg"
    /\ Len(fed) = 2
    /\ Key(fed[1]) = Key(fed[2])
    /\ fed[1] # fed[2]
    /\ results = <<WithArgs(fed[1])>>

\* a step of a grid scan goes to a later point in row-major order: further
\* right in the row, or to the start of the next row
RowMajorOnce ==
    [][(scanner \in {"canvas", "verify"} /\ pc = "scan"
        /\ <<gx, gy>>' # <<gx, gy>>)
       => \/ gy' = gy /\ gx' = gx + StepX(scanner)
          \/ /\ gy' = gy + StepY(scanner)
             /\ gx' = GridX0(scanner, box)
             /\ gx + StepX(scanner) >= GridXEnd(scanner, box)]_vars

\* C22: a grid scan that is over has ended after the last grid point of
\* the box or, in the verifier only, with 20 counties collected
C22_GridScanEnds ==
    (scanner \in {"canvas", "verify"} /\ pc # "scan") =>
        \/ ~GridLeft
        \/ scanner = "verify" /\ Len(found_counties) >= 20

----------------------------------------------------------------------------
(* auto_verify.verify: the comparison of the scanned counties with the     *)
(* rows of county_data_raw.json                                            *)

\* the characters of the keys in code point order
CodePoints ==
    <<" ", "$", "(", ")", ",", "-", ".", "0", "1", "2", "3", "4", "5",
      "6", "7", "8", "9", ":", ";", "A", "B", "C", "D", "E", "F", "G",
      "H", "I", "J", "K", "L", "M", "N", "O", "P", "Q", "R", "S", "T",
      "U", "V", "W", "X", "Y", "Z", "a", "b", "c", "d", "e", "f", "g",
      "h", "i", "j", "k", "l", "m", "n", "o", "p", "q", "r", "s", "t",
      "u", "v", "w", "x", "y", "z">>

Ord(c) == CHOOSE i \in 1..Len(CodePoints) : CodePoints[i] = c

\* a < b for str: the first differing character decides, a proper prefix
\* is smaller
StrLess(a, b) ==
    \E i \in 1..(Len(b)) :
        /\ \A j \in 1..(i - 1) : j <= Len(a) /\ a[j] = b[j]
        /\ i - 1 <= Len(a)
        /\ (i > Len(a) \/ Ord(a[i]) < Ord(b[i]))

\* a sorted list with one more item put after its first n items
InsertAt(sorted, item, n) ==
    SubSeq(sorted, 1, n) \o <<item>> \o SubSeq(sorted, n + 1, Len(sorted))

\* sorted(found_counties.items()): the items by key (the keys of a dict
\* differ, so that the data never decide)
RECURSIVE SortedItems(_)
SortedItems(items) ==
    IF items = <<>> THEN <<>>
    ELSE InsertAt(SortedItems(SubSeq(items, 1, Len(items) - 1)),
                  items[Len(items)],
                  Cardinality({j \in 1..(Len(items) - 1) :
                                 StrLess(items[j].key,
                                         items[Len(items)].key)}))

CompareLimit == 15

\* sorted(found_counties.items())[:15]
Compared(items) ==
    SubSeq(SortedItems(items), 1,
           IF Len(items) < CompareLimit THEN Len(items) ELSE CompareLimit)

\* f"{r['n']}, {r['st']}"
KeyOfRow(r) == r.n \o <<",", " ">> \o r.st

InSlice(r) == r.year = 26 /\ r.age = 50 /\ r.lvl = "gold"

\* our_lookup: the rows of the slice by key, a later row replacing an
\* earlier one with its key
LookupOf(rows) ==
    LET slice == {i \in 1..Len(rows) : InSlice(rows[i])}
    IN  [k \in {KeyOfRow(rows[i]) : i \in slice} |->
            rows[CHOOSE i \in slice :
                    /\ KeyOfRow(rows[i]) = k
                    /\ \A j \in slice : KeyOfRow(rows[j]) = k => j <= i]]

\* truth value of a number or None: None and 0 are false
Truthy(v) == v # None /\ v.n # 0

Tolerance == ToDouble([n |-> 1, k |-> 2])

\* abs(a - b) > 0.01 on floats
OverTolerance(a, b) ==
    DLess(Tolerance, DAbs(DSub(ToDouble(a), ToDouble(b))))

\* the check of one field: web_data[...] and our_record[...] both true and
\* abs(...) > 0.01
FieldMismatch(web, our) ==
    Truthy(web) /\ Truthy(our) /\ OverTolerance(web, our)

\* the lines one key adds to the report
LinesOf(item) ==
    IF item.key \notin DOMAIN our_lookup
    THEN <<[key |-> item.key, line |-> "NOT FOUND"]>>
    ELSE (IF FieldMismatch(item.data.individual, our_lookup[item.key].i)
          THEN <<[key |-> item.key, line |-> "MISMATCH on Individual!"]>>
          ELSE <<>>)
         \o
         (IF FieldMismatch(item.data.small_group, our_lookup[item.key].s)
          THEN <<[key |-> item.key, line |-> "MISMATCH on Small Group!"]>>
          ELSE <<>>)

\* with open("county_data_raw.json") as f: our_data = json.load(f), and
\* the loop that builds our_lookup; mismatches = 0
LoadLookup ==
    /\ pc = "scanned" /\ scanner = "verify"
    /\ cache_exists
    /\ our_data' = cache_file
    /\ our_lookup' = LookupOf(cache_file)
    /\ mismatches' = 0
    /\ ci' = 0
    /\ pc' = "compare"
    /\ UNCHANGED <<parseVars, scanVars, aggVars, runVars, fileVars, report, retval>>

\* open("county_data_raw.json") when there is no such file: the
\* FileNotFoundError is not caught and ends verify
LoadMissing ==
    /\ pc = "scanned" /\ scanner = "verify"
    /\ ~cache_exists
    /\ pc' = "raised"
    /\ UNCHANGED <<parseVars, scanVars, verifyVars, aggVars, runVars, fileVars>>

\* one iteration of "for key, web_data in sorted(...)[:15]"
CompareKey ==
    /\ pc = "compare"
    /\ ci < Len(Compared(found_counties))
    /\ LET lines == LinesOf(Compared(found_counties)[ci + 1])
       IN  /\ report' = report \o lines
           /\ mismatches' = mismatches + Len(lines)
    /\ ci' = ci + 1
    /\ UNCHANGED <<pc, parseVars, scanVars, aggVars, runVars, fileVars, our_data, our_lookup,
                   retval>>

\* after the loop: await browser.close(); return mismatches == 0
VerifyReturn ==
    /\ pc = "compare"
    /\ ci >= Len(Compared(found_counties))
    /\ browser' = "closed"
    /\ retval' = [value |-> mismatches = 0]
    /\ pc' = "returned"
    /\ UNCHANGED <<parseVars, scanVars, aggVars, fileVars, our_data, our_lookup,
                   mismatches, ci, report, script, page, svg_paths,
                   canvas_elements, ran>>

----------------------------------------------------------------------------
(* The comparison runs on the counties of a finished scan and the rows of  *)
(* a cache file.  The first county takes every combination of the field    *)
(* cases, the further ones a few.                                          *)

MaxFound == 2

Dec(n, k) == [n |-> n, k |-> k]

\* scraped and expected values of the field under test
WebVals == {None, Dec(0, 0), Dec(70007, 2), Dec(70099, 2), Dec(700991, 3)}
ExpVals == {None, Dec(0, 0), Dec(70006, 2), Dec(70098, 2)}

Pair(w, o) == [web |-> w, our |-> o]
IndCases  == {Pair(w, o) : w \in WebVals, o \in ExpVals}
SgCases   == {Pair(Dec(80886, 2), Dec(80886, 2)),
              Pair(Dec(70007, 2), Dec(70006, 2)),
              Pair(Dec(80886, 2), None)}
DiffCases == {Pair(Dec(0 - 4762, 2), Dec(0 - 4762, 2)),
              Pair(Dec(60564, 2), Dec(4762, 2)),
              Pair(None, Dec(12, 0))}

CountyOf(i) == <<Upper[i], "o">>
StateOf(i)  == IF i % 2 = 1 THEN <<"T", "X">> ELSE <<"C", "A">>

WebData(i, ind, sg, diff) ==
    [county |-> CountyOf(i), state |-> StateOf(i), difference |-> diff,
     individual |-> ind, small_group |-> sg]

JsonRow(i, year, ind, sg, diff) ==
    [n |-> CountyOf(i), st |-> StateOf(i), year |-> year, age |-> 50,
     lvl |-> "gold", i |-> ind, s |-> sg, d |-> diff]

\* county i as scanned and its rows in the file
FirstCases ==
    {[web  |-> WebData(1, c.web, s.web, d.web),
      rows |-> <<JsonRow(1, 26, c.our, s.our, d.our)>>] :
        c \in IndCases, s \in SgCases, d \in DiffCases}

OtherCases(i) ==
    LET web   == WebData(i, Dec(80886, 2), Dec(700, 0), None)
        exact == JsonRow(i, 26, Dec(80886, 2), Dec(700, 0), Dec(10886, 2))
        off   == JsonRow(i, 26, Dec(80986, 2), Dec(700, 0), Dec(10986, 2))
        old   == JsonRow(i, 25, Dec(80886, 2), Dec(700, 0), Dec(10886, 2))
    IN  {[web |-> web, rows |-> r] :
            r \in {<<>>, <<old>>, <<exact>>, <<off>>, <<off, exact>>}}

CasesOf(i) == IF i = 1 THEN FirstCases \cup OtherCases(1) ELSE OtherCases(i)

\* the scans of n counties, found in the order n, ..., 1
RECURSIVE Scanned(_)
Scanned(n) ==
    IF n = 0 THEN {[found |-> <<>>, rows |-> <<>>]}
    ELSE {[found |-> <<[key |-> Key(c.web), data |-> c.web]>> \o rest.found,
           rows  |-> rest.rows \o c.rows] :
             c \in CasesOf(n), rest \in Scanned(n - 1)}

\* scans of more counties than the comparison takes: county i has no row,
\* or the file has a row for the first and for the last county
ManyCounts == {CompareLimit + 1, SampleTarget}

ManyFound(n) ==
    [j \in 1..n |->
        [key  |-> Key(WebData(n + 1 - j, Dec(80886, 2), Dec(700, 0), None)),
         data |-> WebData(n + 1 - j, Dec(80886, 2), Dec(700, 0), None)]]

ManyScanned(n) ==
    {[found |-> ManyFound(n), rows |-> r] :
        r \in {<<>>,
               <<JsonRow(1, 26, Dec(80886, 2), Dec(700, 0), Dec(10886, 2)),
                 JsonRow(n, 26, Dec(80886, 2), Dec(700, 0), Dec(10886, 2))>>}}

InitVerify ==
    /\ pc = "scanned"
    /\ IdleParse
    /\ scanner = "verify"
    /\ paths = 0
    /\ idx = 0
    /\ box = [x |-> 0, y |-> 0, width |-> 56, height |-> 56]
    /\ gx = GridX0(scanner, box)
    /\ gy = GridYEnd(scanner, box)
    /\ results = <<>>
    /\ seen = {}
    /\ fed = <<>>
    /\ cache_exists \in BOOLEAN
    /\ \E sc \in UNION {Scanned(n) : n \in 1..MaxFound}
                  \cup UNION {ManyScanned(n) : n \in ManyCounts} :
          /\ found_counties = sc.found
          /\ cache_file = IF cache_exists THEN sc.rows ELSE <<>>
    /\ our_data = <<>>
    /\ our_lookup = <<>>
    /\ mismatches = 0
    /\ ci = 0
    /\ report = <<>>
    /\ retval = Unset
    /\ IdleAgg
    /\ script = "verify"
    /\ page = "any"
    /\ browser = "open"
    /\ svg_paths = 0
    /\ canvas_elements = 0
    /\ ran = <<>>
    /\ fetches = 0
    /\ returned = <<>>
    /\ csv = NoCsv

NextVerify == LoadLookup \/ LoadMissing \/ CompareKey \/ VerifyReturn

SpecVerify == InitVerify /\ [][NextVerify]_vars

----------------------------------------------------------------------------
(* Claims about the comparison *)

\* the value of a decimal in units of 10^-3
Milli(v) == v.n * Pow10(3 - v.k)

\* |w - o| > 0.01, exactly
DiffersByMoreThanACent(w, o) ==
    Milli(w) - Milli(o) > 10 \/ Milli(o) - Milli(w) > 10

Flagged(key, line) ==
    \E k \in 1..Len(report) : report[k] = [key |-> key, line |-> line]

\* the items whose comparison is done
Done == SubSeq(Compared(found_counties), 1, ci)

\* C9: a field is flagged exactly when the scraped and the expected value
\* differ by strictly more than 0.01: a difference of 0.01 is not flagged,
\* one of 0.011 is
C9_FlaggedIffOverACent ==
    pc \in {"compare", "returned"} =>
        \A k \in 1..Len(Done) :
            LET item == Done[k]
                row  == our_lookup[item.key]
            IN  item.key \in DOMAIN our_lookup =>
                  /\ (Truthy(item.data.individual) /\ Truthy(row.i)) =>
                        (Flagged(item.key, "MISMATCH on Individual!")
                         <=> DiffersByMoreThanACent(item.data.individual,
                                                    row.i))
                  /\ (Truthy(item.data.small_group) /\ Truthy(row.s)) =>
                        (Flagged(item.key, "MISMATCH on Small Group!")
                         <=> DiffersByMoreThanACent(item.data.small_group,
                                                    row.s))

\* the mismatches the claim counts for one key: the fields, of the three,
\* with both values present (0 is a value) and differing by more than 0.01
Field(w, o) == IF w # None /\ o # None /\ DiffersByMoreThanACent(w, o)
               THEN 1 ELSE 0

ClaimedMismatches(item, row) ==
    Field(item.data.individual, row.i) + Field(item.data.small_group, row.s)
    + Field(item.data.difference, row.d)

CountedFor(key) == Cardinality({k \in 1..Len(report) : report[k].key = key})

\* C10: for a compared key with a row in the file, the mismatches counted
\* are those of the three fields individual, smallGroup and difference whose
\* two values are non-null (0 included) and differ by more than the
\* tolerance
C10_ThreeFieldsCounted ==
    pc \in {"compare", "returned"} =>
        \A k \in 1..Len(Done) :
            Done[k].key \in DOMAIN our_lookup =>
                CountedFor(Done[k].key)
                    = ClaimedMismatches(Done[k], our_lookup[Done[k].key])

\* the NOT FOUND lines the report holds for a key
NotFoundLines(key) ==
    {k \in 1..Len(report) : report[k] = [key |-> key, line |-> "NOT FOUND"]}

\* the collected keys without a row in the year 26, age 50, gold slice
KeysWithoutRow ==
    {found_counties[e].key : e \in 1..Len(found_counties)}
        \ DOMAIN our_lookup

\* C11: when verify has returned, every key the scan collected that has no
\* row in the expected slice has exactly one NOT FOUND line, and the
\* mismatch count includes one for each such key, however many keys the
\* scan collected
C11_NotFoundPerKey ==
    (script = "verify" /\ pc = "returned") =>
        /\ \A key \in KeysWithoutRow : Cardinality(NotFoundLines(key)) = 1
        /\ mismatches >= Cardinality(KeysWithoutRow)

----------------------------------------------------------------------------
(* Whole runs of scrape_map and of auto_verify.verify: the browser is      *)
(* launched, the page is loaded and set up, the scans run, the browser is  *)
(* closed and the result returned.  A step that raises ends the run.       *)

\* the slip of taking a path count of exactly 100 for an SVG map
SelectStrategy_atleast(n, c) ==
    IF n >= PathThreshold THEN "svg"
    ELSE IF c > 0 THEN "canvas"
    ELSE "both"

\* if svg_paths > 100: ... elif canvas_elements > 0: ... else: ...
SelectStrategy(n, c) ==
    IF n > PathThreshold THEN "svg"
    ELSE IF c > 0 THEN "canvas"
    ELSE "both"

\* the slip of falling back with exactly 50 records
NeedFallback_atmost(n) == n <= FallbackThreshold

\* if len(results) < 50
NeedFallback(n) == n < FallbackThreshold

\* the else branch has run the path scan and not yet the grid scan
TryingBoth ==
    /\ SelectStrategy(svg_paths, canvas_elements) = "both"
    /\ ran = <<"svg">>

PathCounts ==
    {0, FallbackThreshold - 1, FallbackThreshold, PathThreshold,
     PathThreshold + 1}
CanvasCounts == {0, 1}

\* the map container of the verifier's page: one or two grid points on a
\* page of any content, five by five on a numbered page
RunVerifyBoxes(pg) ==
    IF pg = "any" THEN [x : {0}, y : {0}, width : {41, 56}, height : {41}]
    ELSE {[x |-> 0, y |-> 0, width |-> 101, height |-> 101]}

RunCacheFiles ==
    {<<>>,
     <<[n |-> <<"A", "d", "a">>, st |-> <<"T", "X">>, year |-> 26,
        age |-> 50, lvl |-> "gold", i |-> Dec(700, 0),
        s |-> Dec(80886, 2), d |-> Dec(0 - 10886, 2)]>>}

InitRun ==
    /\ pc = "start"
    /\ IdleParse
    /\ IdleScan
    /\ IdleVerify
    /\ IdleAgg
    /\ script \in {"scrape", "verify"}
    /\ page \in IF script = "scrape" THEN {"numbered", "paired"}
                ELSE {"any", "numbered"}
    /\ browser = "none"
    /\ svg_paths = 0
    /\ canvas_elements = 0
    /\ ran = <<>>
    /\ cache_exists \in IF script = "verify" THEN BOOLEAN ELSE {FALSE}
    /\ cache_file \in IF cache_exists THEN RunCacheFiles ELSE {<<>>}
    /\ fetches = 0
    /\ returned = <<>>
    /\ csv = NoCsv

\* scrape_map: p.chromium.launch, new_context, new_page, page.goto,
\* set_map_filters, scrollBy.  page.goto and the wait_for_selector of
\* set_map_filters raise on a timeout and nothing catches it.
ScrapeOpen ==
    /\ pc = "start" /\ script = "scrape"
    /\ browser' = "open"
    /\ \E o \in {"ok", "goto_timeout", "selector_timeout"} :
          pc' = IF o = "ok" THEN "opened" ELSE "raised"
    /\ UNCHANGED <<parseVars, scanVars, verifyVars, aggVars, fileVars,
                   script, page, svg_paths, canvas_elements, ran>>

\* scrape_svg_map starts: paths listed, results = [], seen = set()
StartSvg(n) ==
    /\ scanner' = "svg"
    /\ paths' = n
    /\ idx' = 0
    /\ results' = <<>>
    /\ seen' = {}
    /\ ran' = Append(ran, "svg")
    /\ pc' = "scan"
    /\ UNCHANGED <<box, gx, gy>>

\* the slip of going on with the records of the path scan
StartCanvas_merge ==
    /\ scanner' = "canvas"
    /\ idx' = 0
    /\ ran' = Append(ran, "canvas")
    /\ \/ \E b \in CanvasBoxes :
             /\ box' = b
             /\ gx' = GridX0("canvas", b)
             /\ gy' = GridY0("canvas", b)
             /\ pc' = "scan"
       \/ /\ pc' \in {"scanned", "raised"}
          /\ UNCHANGED <<box, gx, gy>>
    /\ UNCHANGED <<paths, results, seen>>

\* scrape_canvas_map starts: results = [], seen = set(), box =
\* canvas.bounding_box(), which gives a box or None (return results) or
\* raises when no canvas shows up in time
StartCanvas ==
    /\ scanner' = "canvas"
    /\ idx' = 0
    /\ results' = <<>>
    /\ seen' = {}
    /\ ran' = Append(ran, "canvas")
    /\ \/ \E b \in CanvasBoxes :
             /\ box' = b
             /\ gx' = GridX0("canvas", b)
             /\ gy' = GridY0("canvas", b)
             /\ pc' = "scan"
       \/ /\ pc' \in {"scanned", "raised"}
          /\ UNCHANGED <<box, gx, gy>>
    /\ UNCHANGED paths

\* scrape_map: the two counts and the scan they select
ChooseStrategy ==
    /\ pc = "opened" /\ script = "scrape"
    /\ \E n \in PathCounts, c \in CanvasCounts :
          /\ svg_paths' = n
          /\ canvas_elements' = c
          /\ IF SelectStrategy(n, c) = "canvas" THEN StartCanvas
             ELSE StartSvg(n)
    /\ UNCHANGED <<parseVars, verifyVars, aggVars, fileVars, found_counties,
                   fed, script, page, browser>>

\* scrape_map, else branch: if len(results) < 50:
\* results = await scrape_canvas_map(page, args)
FallBack ==
    /\ pc = "scanned" /\ script = "scrape"
    /\ TryingBoth
    /\ NeedFallback(Len(results))
    /\ StartCanvas
    /\ UNCHANGED <<parseVars, verifyVars, aggVars, fileVars, found_counties,
                   fed, script, page, browser, svg_paths, canvas_elements>>

\* scrape_map: await browser.close(); return results
ScrapeReturn ==
    /\ pc = "scanned" /\ script = "scrape"
    /\ ~(TryingBoth /\ NeedFallback(Len(results)))
    /\ browser' = "closed"
    /\ retval' = [value |-> results]
    /\ pc' = "returned"
    /\ UNCHANGED <<parseVars, scanVars, aggVars, fileVars, our_data,
                   our_lookup, mismatches, ci, report, script, page,
                   svg_paths, canvas_elements, ran>>

\* verify: p.chromium.launch, new_page, page.goto, select_option three
\* times, scroll, map_div.bounding_box().  page.goto and select_option
\* raise on a timeout and nothing catches it; without a box verify closes
\* the browser and returns (None); with one the grid scan starts.
VerifyOpen ==
    /\ pc = "start" /\ script = "verify"
    /\ \/ /\ \E o \in {"goto_timeout", "select_timeout"} : pc' = "raised"
          /\ browser' = "open"
          /\ UNCHANGED <<scanVars, retval>>
       \/ /\ browser' = "closed"
          /\ retval' = None
          /\ pc' = "returned"
          /\ UNCHANGED scanVars
       \/ /\ \E b \in RunVerifyBoxes(page) :
                /\ box' = b
                /\ gx' = GridX0("verify", b)
                /\ gy' = GridY0("verify", b)
          /\ browser' = "open"
          /\ scanner' = "verify"
          /\ found_counties' = <<>>
          /\ pc' = "scan"
          /\ UNCHANGED <<paths, idx, results, seen, fed, retval>>
    /\ UNCHANGED <<parseVars, aggVars, fileVars, our_data, our_lookup,
                   mismatches, ci, report, script, page, svg_paths,
                   canvas_elements, ran>>

NextRun ==
    \/ ScrapeOpen \/ ChooseStrategy \/ SvgPath \/ CanvasPoint \/ ScanEnd
    \/ FallBack \/ ScrapeReturn
    \/ VerifyOpen \/ VerifyPoint \/ LoadLookup \/ LoadMissing
    \/ CompareKey \/ VerifyReturn

SpecRun == InitRun /\ [][NextRun]_vars

----------------------------------------------------------------------------
(* Claims about whole runs *)

RunOver == pc \in {"returned", "raised"}

\* C12: every run of verify ends by returning a boolean, true exactly
\* when the mismatch count is 0; no run ends otherwise
C12_ReturnsPassFail ==
    (script = "verify" /\ RunOver) =>
        /\ pc = "returned"
        /\ retval = [value |-> mismatches = 0]

\* C13: when a run of scrape_map or of verify is over and the browser was
\* launched, browser.close() has been called, whether the run completed,
\* left early or ended with a failure
C13_BrowserClosedAtEnd ==
    (RunOver /\ browser # "none") => browser = "closed"

\* C14: in none of the three scan loops does a failure at one element end
\* the scan: the loop goes on or finishes
C14_FailureStaysInIteration ==
    scanner \in {"svg", "canvas", "verify"} => pc # "raised"

\* C15: a script that needs the cache file and does not find it ends
\* without raising an error and without writing a CSV
C15_MissingCacheHandled ==
    (script \in {"verify", "export_state"} /\ ~cache_exists) =>
        (pc # "raised" /\ csv = NoCsv)

\* C17: the scan is chosen from the two counts: more than 100 paths, only
\* the path scan runs; at most 100 paths (100 included) and a canvas, only
\* the grid scan runs
C17_StrategyFromCounts ==
    (script = "scrape" /\ ran # <<>>) =>
        /\ svg_paths > 100 => ran = <<"svg">>
        /\ (svg_paths <= 100 /\ canvas_elements > 0) => ran = <<"canvas">>

C17_Witness ==
    /\ script = "scrape" /\ pc = "returned"
    /\ svg_paths = 100 /\ canvas_elements > 0
    /\ ran = <<"canvas">>

\* C18: with at most 100 paths and no canvas the path scan is started
\* first; when it is over the grid scan is started if it gave fewer than
\* 50 records, and otherwise the browser is closed and the records of the
\* path scan are returned
C18_FallbackIffFewer ==
    [][/\ (script = "scrape" /\ pc = "opened"
           /\ svg_paths' <= 100 /\ canvas_elements' = 0)
          => ran' = <<"svg">>
       /\ (script = "scrape" /\ pc = "scanned" /\ ran = <<"svg">>
           /\ svg_paths <= 100 /\ canvas_elements = 0)
          => IF Len(results) < 50
             THEN ran' = <<"svg", "canvas">>
             ELSE /\ pc' = "returned"
                  /\ ran' = <<"svg">>
                  /\ retval' = [value |-> results]]_vars

C18_Witness ==
    /\ script = "scrape" /\ pc = "returned"
    /\ svg_paths = 49 /\ canvas_elements = 0
    /\ ran = <<"svg", "canvas">>

\* the samples fed to the grid scan of the try-both branch: those after
\* the samples of the path scan, one per path on the pages of these runs
GridFed == SubSeq(fed, svg_paths + 1, Len(fed))

\* the first sample of every key, in the order of the samples
RECURSIVE FirstPerKey(_, _)
FirstPerKey(samples, n) ==
    IF n = 0 THEN <<>>
    ELSE IF \E j \in 1..(n - 1) : Key(samples[j]) = Key(samples[n])
    THEN FirstPerKey(samples, n - 1)
    ELSE Append(FirstPerKey(samples, n - 1), WithArgs(samples[n]))

\* C23: when the try-both branch has run the grid scan, the list returned
\* is the grid scan's output alone, with nothing of the path scan in it;
\* and whatever the branch, the list returned holds no key twice
C23_GridResultReplaces ==
    (script = "scrape" /\ pc = "returned") =>
        /\ \A a, b \in 1..Len(retval.value) :
              a # b => Key(retval.value[a]) # Key(retval.value[b])
        /\ ran = <<"svg", "canvas">> =>
              retval.value = FirstPerKey(GridFed, Len(GridFed))

\* the path scan gave 49 records, the grid scan none: the empty list is
\* returned
C23_Witness ==
    /\ script = "scrape" /\ pc = "returned"
    /\ ran = <<"svg", "canvas">>
    /\ Len(fed) = 49
    /\ retval.value = <<>>

\* C19: the verifier's scan never holds more than 20 counties, and with
\* 20 counties it is over: no grid point is visited any more
C19_StopsAtTwenty ==
    script = "verify" =>
        /\ Len(found_counties) <= 20
        /\ Len(found_counties) = 20 => pc # "scan"

\* the 20th county was found with grid rows left
C19_Witness ==
    /\ script = "verify" /\ pc = "scanned"
    /\ Len(found_counties) = 20
    /\ gy + step < GridYEnd(scanner, box)

----------------------------------------------------------------------------
(* export_state_data.py: aggregation of county rows to state level *)

STATE_NAMES ==
    {<<"AL", "Alabama">>, <<"AK", "Alaska">>, <<"AZ", "Arizona">>,
     <<"AR", "Arkansas">>, <<"CA", "California">>, <<"CO", "Colorado">>,
     <<"CT", "Connecticut">>, <<"DE", "Delaware">>, <<"DC", "District of Columbia">>,
     <<"FL", "Florida">>, <<"GA", "Georgia">>, <<"HI", "Hawaii">>,
     <<"ID", "Idaho">>, <<"IL", "Illinois">>, <<"IN", "Indiana">>,
     <<"IA", "Iowa">>, <<"KS", "Kansas">>, <<"KY", "Kentucky">>,
     <<"LA", "Louisiana">>, <<"ME", "Maine">>, <<"MD", "Maryland">>,
     <<"MA", "Massachusetts">>, <<"MI", "Michigan">>, <<"MN", "Minnesota">>,
     <<"MS", "Mississippi">>, <<"MO", "Missouri">>, <<"MT", "Montana">>,
     <<"NE", "Nebraska">>, <<"NV", "Nevada">>, <<"NH", "New Hampshire">>,
     <<"NJ", "New Jersey">>, <<"NM", "New Mexico">>, <<"NY", "New York">>,
     <<"NC", "North Carolina">>, <<"ND", "North Dakota">>, <<"OH", "Ohio">>,
     <<"OK", "Oklahoma">>, <<"OR", "Oregon">>, <<"PA", "Pennsylvania">>,
     <<"RI", "Rhode Island">>, <<"SC", "South Carolina">>, <<"SD", "South Dakota">>,
     <<"TN", "Tennessee">>, <<"TX", "Texas">>, <<"UT", "Utah">>,
     <<"VT", "Vermont">>, <<"VA", "Virginia">>, <<"WA", "Washington">>,
     <<"WV", "West Virginia">>, <<"WI", "Wisconsin">>, <<"WY", "Wyoming">>,
     <<"PR", "Puerto Rico">>}

\* STATE_NAMES.get(state, state)
StateName(state) ==
    IF \E p \in STATE_NAMES : p[1] = state
    THEN (CHOOSE p \in STATE_NAMES : p[1] = state)[2]
    ELSE state

ToUpper(c) ==
    IF c \in LowerSet THEN Upper[CHOOSE i \in 1..26 : Lower[i] = c] ELSE c

\* str.capitalize(): first character upper-cased, the others lower-cased
Capitalize(str) ==
    [j \in 1..Len(str) |-> IF j = 1 THEN ToUpper(str[j]) ELSE Fold(str[j])]

\* the exact sum of two binary values [neg, m, e], m of any length
XAdd(a, b) ==
    IF b.m = <<>> THEN a
    ELSE IF a.m = <<>> THEN b
    ELSE LET e0 == LeastExp(a, b)
             A  == BShl(a.m, a.e - e0)
             B  == BShl(b.m, b.e - e0)
         IN  IF a.neg = b.neg THEN [neg |-> a.neg, m |-> BAdd(A, B), e |-> e0]
             ELSE IF BLess(A, B)
             THEN [neg |-> b.neg, m |-> BSub(B, A), e |-> e0]
             ELSE [neg |-> a.neg, m |-> BSub(A, B), e |-> e0]

\* the exact sum of the numbers vals[1..n] as json.load read them
RECURSIVE XSum(_, _)
XSum(vals, n) ==
    IF n = 0 THEN Zero ELSE XAdd(XSum(vals, n - 1), ToDouble(vals[n]))

\* statistics.mean(vals): the exact sum over the count, rounded once
mean(vals) ==
    LET total == XSum(vals, Len(vals))
        d     == BDivSmall(BShl(total.m, Guard), Len(vals))
    IN  RoundToDouble(total.neg, d.q, d.r # 0, total.e - Guard)

RECURSIVE BToInt(_)
BToInt(a) == IF a = <<>> THEN 0 ELSE a[1] + Base * BToInt(Tail(a))

\* round(x, 2): the hundredth nearest to the exact value of the double x,
\* ties to the even hundredth
round2(x) ==
    LET v == BMulSmall(x.m, 100)
        c == IF x.e >= 0 THEN BShl(v, x.e)
             ELSE LET h  == BShr(v, (0 - x.e) - 1)
                      q  == BShr(h.q, 1).q
                      up == BOdd(h.q) /\ (h.lost \/ BOdd(q))
                  IN  IF up THEN BAdd(q, <<1>>) ELSE q
    IN  Canon(IF x.neg THEN 0 - BToInt(c) ELSE BToInt(c), 2)

\* year_data with every row kept, whatever its year
year_data_all(data, year_code) == data

\* [r for r in data if r.get("year") == year_code]
year_data(data, year_code) ==
    SelectSeq(data, LAMBDA r : r.year = year_code)

GroupKey(row) == <<row.st, row.age, row.lvl>>

\* the keys of groups in insertion order
RECURSIVE GroupKeys(_, _)
GroupKeys(rows, n) ==
    IF n = 0 THEN <<>>
    ELSE LET before == GroupKeys(rows, n - 1)
         IN  IF \E j \in 1..Len(before) : before[j] = GroupKey(rows[n])
             THEN before
             ELSE Append(before, GroupKey(rows[n]))

\* groups[key]
GroupRows(rows, key) == SelectSeq(rows, LAMBDA r : GroupKey(r) = key)

\* the values of field f with None counted as 0
NonNull_zero(rows, f) ==
    [j \in 1..Len(rows) |-> IF rows[j][f] = None THEN [n |-> 0, k |-> 0]
                            ELSE rows[j][f]]

\* [r[f] for r in rows if r.get(f) is not None]
NonNull(rows, f) ==
    LET kept == SelectSeq(rows, LAMBDA r : r[f] # None)
    IN  [j \in 1..Len(kept) |-> kept[j][f]]

\* round(mean(vals), 2) if vals else None
Average(vals) == IF vals # <<>> THEN round2(mean(vals)) ELSE None

aggregate_by_state(data, year) ==
    LET year_code == year - 2000
        rows_of_year == year_data(data, year_code)
        keys == GroupKeys(rows_of_year, Len(rows_of_year))
    IN  [g \in 1..Len(keys) |->
           LET rows == GroupRows(rows_of_year, keys[g])
           IN  [state_abbr |-> keys[g][1],
                state_name |-> StateName(keys[g][1]),
                age |-> keys[g][2],
                metal_tier |-> IF keys[g][3] # <<>>
                               THEN Capitalize(keys[g][3]) ELSE <<>>,
                individual_premium_avg |-> Average(NonNull(rows, "i")),
                small_group_premium_avg |-> Average(NonNull(rows, "s")),
                difference_avg |-> Average(NonNull(rows, "d")),
                county_count |-> Len(rows),
                year |-> year]]

----------------------------------------------------------------------------
(* The aggregation runs on bounded snapshots *)

MaxRows == 3

Gold == <<"g", "o", "l", "d">>
Silver == <<"s", "i", "l", "v", "e", "r">>

Row(st, age, lvl, year, i, s, d) ==
    [st |-> st, age |-> age, lvl |-> lvl, year |-> year,
     i |-> i, s |-> s, d |-> d]

R_Full == Row("TX", 50, Gold, 26, Dec(100, 0), Dec(200, 0), Dec(-100, 0))
R_NullI == Row("TX", 50, Gold, 26, None, Dec(300, 0), None)
R_700 == Row("TX", 50, Gold, 26, Dec(700, 0), Dec(70098, 2), Dec(-98, 2))
R_710 == Row("TX", 50, Gold, 26, Dec(710, 0), Dec(70099, 2), Dec(901, 2))
R_720 == Row("TX", 50, Gold, 26, Dec(720, 0), Dec(1, 2), None)
R_OtherYear == Row("TX", 50, Gold, 25, Dec(999, 0), Dec(999, 0), Dec(0, 0))
R_AllNull == Row("TX", 50, Silver, 26, None, None, None)
R_Silver == Row("TX", 50, Silver, 26, Dec(0, 0), Dec(125, 3), Dec(-125, 3))
R_CA == Row("CA", 27, Gold, 26, Dec(2, 2), Dec(1, 2), Dec(1, 2))
R_CAOther == Row("CA", 27, Gold, 25, None, Dec(80886, 2), None)

RowSpace ==
    {R_Full, R_NullI, R_700, R_710, R_720, R_OtherYear, R_AllNull, R_Silver,
     R_CA, R_CAOther}

Years == {2025, 2026}

SeqsUpTo(S, n) == UNION {[1..m -> S] : m \in 0..n}

InitAgg ==
    /\ pc = "aggregate"
    /\ input = [kind |-> "none"]
    /\ text = <<>>
    /\ rec = Unset
    /\ vrec = Unset
    /\ money = <<>>
    /\ amount = Unset
    /\ IdleScan
    /\ IdleVerify
    /\ agg_data \in SeqsUpTo(RowSpace, MaxRows)
    /\ agg_year \in Years
    /\ agg_out = Unset
    /\ IdleRun
    /\ IdleFile

\* state_data = aggregate_by_state(data, args.year)
Aggregate ==
    /\ pc = "aggregate"
    /\ agg_out' = aggregate_by_state(agg_data, agg_year)
    /\ pc' = "aggregated"
    /\ UNCHANGED <<parseVars, scanVars, verifyVars, runVars, fileVars, agg_data,
                   agg_year>>

NextAgg == Aggregate

SpecAgg == InitAgg /\ [][NextAgg]_vars

Aggregated == pc = "aggregated"

\* the rows of the requested year grouped as the result with this key
MembersOf(res) ==
    {j \in 1..Len(agg_data) :
        /\ agg_data[j].year = agg_year - 2000
        /\ agg_data[j].st = res.state_abbr
        /\ agg_data[j].age = res.age
        /\ Capitalize(agg_data[j].lvl) = res.metal_tier}

RECURSIVE MilliSum(_, _)
MilliSum(J, f) ==
    IF J = {} THEN 0
    ELSE LET j == CHOOSE x \in J : TRUE
         IN  Milli(agg_data[j][f]) + MilliSum(J \ {j}, f)

Magnitude(n) == IF n < 0 THEN 0 - n ELSE n

AvgField == [i |-> "individual_premium_avg", s |-> "small_group_premium_avg",
             d |-> "difference_avg"]

\* avg is a hundredth and no other hundredth is nearer to the mean of the
\* values of field f in the rows J
NearestHundredth(avg, J, f) ==
    /\ avg # None
    /\ avg.k <= 2
    /\ 2 * Magnitude(Milli(avg) * Cardinality(J) - MilliSum(J, f))
          <= 10 * Cardinality(J)

\* C7: in every result of aggregate_by_state each of the three averages is
\* the mean, rounded to two decimals, of the non-null values of that one
\* field among the rows of the group, whatever the other fields of those
\* rows hold, and it is None when the group has no non-null value of it
C7_MeanOfNonNull ==
    Aggregated =>
        \A g \in 1..Len(agg_out) : \A f \in {"i", "s", "d"} :
            LET J == {j \in MembersOf(agg_out[g]) : agg_data[j][f] # None}
            IN  IF J = {} THEN agg_out[g][AvgField[f]] = None
                ELSE NearestHundredth(agg_out[g][AvgField[f]], J, f)

\* records [{i:100,s:200},{i:null,s:300}] have given 100.00 and 250.00 and
\* an absent difference mean has come out of a group without differences
C7_Witness ==
    /\ Aggregated
    /\ agg_data = <<R_Full, R_NullI>>
    /\ agg_year = 2026
    /\ agg_out[1].individual_premium_avg = Dec(100, 0)
    /\ agg_out[1].small_group_premium_avg = Dec(250, 0)
    /\ agg_out[1].difference_avg = Dec(-100, 0)

YearRows == {j \in 1..Len(agg_data) : agg_data[j].year = agg_year - 2000}

ResultKey(res) == <<res.state_abbr, res.age, res.metal_tier>>

RowKey(row) == <<row.st, row.age, Capitalize(row.lvl)>>

RECURSIVE CountSum(_)
CountSum(n) == IF n = 0 THEN 0 ELSE agg_out[n].county_count + CountSum(n - 1)

\* C8: aggregate_by_state returns one result per (state, age, metal) found
\* among the rows of the requested year, its county_count is the number of
\* rows of that year in the group, null premiums or not, and the counts add
\* up to the number of rows of that year
C8_OnePerGroup ==
    Aggregated =>
        /\ \A j \in YearRows :
              \E g \in 1..Len(agg_out) : ResultKey(agg_out[g]) = RowKey(agg_data[j])
        /\ \A g, h \in 1..Len(agg_out) :
              ResultKey(agg_out[g]) = ResultKey(agg_out[h]) => g = h
        /\ \A g \in 1..Len(agg_out) :
              /\ agg_out[g].county_count >= 1
              /\ agg_out[g].county_count = Cardinality(MembersOf(agg_out[g]))
              /\ agg_out[g].year = agg_year
        /\ CountSum(Len(agg_out)) = Cardinality(YearRows)

\* two rows of the requested year, one without an individual premium, and
\* a row of another year between them have given one result counting two
C8_Witness ==
    /\ Aggregated
    /\ agg_data = <<R_Full, R_OtherYear, R_NullI>>
    /\ agg_year = 2026
    /\ Len(agg_out) = 1
    /\ agg_out[1].county_count = 2

----------------------------------------------------------------------------
(* The CSV writers: export_county_data.export_counties_csv,                *)
(* export_state_data.export_states_csv (at the end of main) and            *)
(* scrape_ideon_map.write_csv.  The CSV is the list of the rows written.   *)

FIPS_TO_STATE ==
    {<<<<"0", "1">>, "Alabama">>, <<<<"0", "2">>, "Alaska">>,
     <<<<"0", "4">>, "Arizona">>, <<<<"0", "5">>, "Arkansas">>,
     <<<<"0", "6">>, "California">>, <<<<"0", "8">>, "Colorado">>,
     <<<<"0", "9">>, "Connecticut">>, <<<<"1", "0">>, "Delaware">>,
     <<<<"1", "1">>, "District of Columbia">>, <<<<"1", "2">>, "Florida">>,
     <<<<"1", "3">>, "Georgia">>, <<<<"1", "5">>, "Hawaii">>,
     <<<<"1", "6">>, "Idaho">>, <<<<"1", "7">>, "Illinois">>,
     <<<<"1", "8">>, "Indiana">>, <<<<"1", "9">>, "Iowa">>,
     <<<<"2", "0">>, "Kansas">>, <<<<"2", "1">>, "Kentucky">>,
     <<<<"2", "2">>, "Louisiana">>, <<<<"2", "3">>, "Maine">>,
     <<<<"2", "4">>, "Maryland">>, <<<<"2", "5">>, "Massachusetts">>,
     <<<<"2", "6">>, "Michigan">>, <<<<"2", "7">>, "Minnesota">>,
     <<<<"2", "8">>, "Mississippi">>, <<<<"2", "9">>, "Missouri">>,
     <<<<"3", "0">>, "Montana">>, <<<<"3", "1">>, "Nebraska">>,
     <<<<"3", "2">>, "Nevada">>, <<<<"3", "3">>, "New Hampshire">>,
     <<<<"3", "4">>, "New Jersey">>, <<<<"3", "5">>, "New Mexico">>,
     <<<<"3", "6">>, "New York">>, <<<<"3", "7">>, "North Carolina">>,
     <<<<"3", "8">>, "North Dakota">>, <<<<"3", "9">>, "Ohio">>,
     <<<<"4", "0">>, "Oklahoma">>, <<<<"4", "1">>, "Oregon">>,
     <<<<"4", "2">>, "Pennsylvania">>, <<<<"4", "4">>, "Rhode Island">>,
     <<<<"4", "5">>, "South Carolina">>, <<<<"4", "6">>, "South Dakota">>,
     <<<<"4", "7">>, "Tennessee">>, <<<<"4", "8">>, "Texas">>,
     <<<<"4", "9">>, "Utah">>, <<<<"5", "0">>, "Vermont">>,
     <<<<"5", "1">>, "Virginia">>, <<<<"5", "3">>, "Washington">>,
     <<<<"5", "4">>, "West Virginia">>, <<<<"5", "5">>, "Wisconsin">>,
     <<<<"5", "6">>, "Wyoming">>, <<<<"7", "2">>, "Puerto Rico">>}

\* FIPS_TO_STATE.get(fips[:2] if len(fips) >= 2 else "", "")
StateOfFips(fips) ==
    IF Len(fips) >= 2 /\ \E p \in FIPS_TO_STATE : p[1] = SubSeq(fips, 1, 2)
    THEN (CHOOSE p \in FIPS_TO_STATE : p[1] = SubSeq(fips, 1, 2))[2]
    ELSE ""

\* the state codes of the aggregated rows, letter by letter, for str's <
Spelled == {<<"CA", <<"C", "A">>>>, <<"TX", <<"T", "X">>>>}
Spell(st) == (CHOOSE p \in Spelled : p[1] = st)[2]

\* the slip of sorting by county first
KeyOf_county_first(kind, r) ==
    IF kind = "states" THEN <<Spell(r.state_abbr), r.age, r.metal_tier>>
    ELSE IF kind = "counties" THEN <<r.n, r.st>>
    ELSE <<r.county, r.state>>

\* the key= of the three sorted(...) calls
KeyOf(kind, r) ==
    IF kind = "states" THEN <<Spell(r.state_abbr), r.age, r.metal_tier>>
    ELSE IF kind = "counties" THEN <<r.st, r.n>>
    ELSE <<r.state, r.county>>

\* a < b for the key tuples: (str, int, str) and (str, str)
TupleLess(kind, a, b) ==
    IF kind = "states"
    THEN \/ StrLess(a[1], b[1])
         \/ a[1] = b[1] /\ a[2] < b[2]
         \/ a[1] = b[1] /\ a[2] = b[2] /\ StrLess(a[3], b[3])
    ELSE \/ StrLess(a[1], b[1])
         \/ a[1] = b[1] /\ StrLess(a[2], b[2])

\* sorted(rows, key=...): stable, a row goes after the earlier rows whose
\* key is not greater
RECURSIVE Sorted(_, _)
Sorted(kind, rows) ==
    IF rows = <<>> THEN <<>>
    ELSE InsertAt(Sorted(kind, SubSeq(rows, 1, Len(rows) - 1)),
                  rows[Len(rows)],
                  Cardinality({j \in 1..(Len(rows) - 1) :
                                 ~TupleLess(kind,
                                            KeyOf(kind, rows[Len(rows)]),
                                            KeyOf(kind, rows[j]))}))

\* the dict export_counties_csv writes for a row
CountyCsvRow(row) ==
    [fips |-> row.f, county |-> row.n, state_abbr |-> row.st,
     state_name |-> StateOfFips(row.f),
     individual_premium |-> row.i, small_group_premium |-> row.s,
     difference |-> row.d, year |-> 2000 + row.year, age |-> row.age,
     metal_tier |-> Capitalize(row.lvl)]

\* export_counties_csv(data, output_path): the rows written
export_counties_csv(data) ==
    [k \in 1..Len(data) |-> CountyCsvRow(Sorted("counties", data)[k])]

\* export_states_csv(data, output_path): the rows written
export_states_csv(data) == Sorted("states", data)

\* write_csv(results, output_path): the rows written
write_csv(rs) == Sorted("results", rs)

----------------------------------------------------------------------------
(* The writers run on bounded inputs *)

MaxRecords == 3

Fips(a, b) == <<a, b, "0", "0", "1">>

CountyRow(f, n, st, lvl, i) ==
    [f |-> f, n |-> n, st |-> st, year |-> 26, age |-> 50, lvl |-> lvl,
     i |-> i, s |-> Dec(80886, 2), d |-> None]

\* rows of the county file: two counties of Texas, one of them twice, one
\* of California, one of a state without a name in the table
CountyRowSpace ==
    {CountyRow(Fips("4", "8"), <<"B", "e", "e">>, <<"T", "X">>, Gold, Dec(700, 0)),
     CountyRow(Fips("4", "8"), <<"B", "e", "e">>, <<"T", "X">>, Silver, Dec(600, 0)),
     CountyRow(Fips("4", "8"), <<"A", "d", "a">>, <<"T", "X">>, Gold, None),
     CountyRow(Fips("0", "6"), <<"K", "e", "r", "n">>, <<"C", "A">>, Gold, Dec(900, 0)),
     CountyRow(Fips("0", "3"), <<"A", "d", "a">>, <<"Z", "Z">>, Gold, Dec(1, 0))}

R_TX27 == Row("TX", 27, Gold, 26, Dec(500, 0), None, None)

\* rows of the cache file of export_state_data
ExportRowSpace == {R_Full, R_Silver, R_CA, R_TX27}

\* the records of a scan: the keys differ
ScanRecords ==
    {WithArgs(ScanParsed[t]) :
        t \in {S_AdaFirst, S_Bay, NumberedText(1), NumberedText(2)}}

ResultLists ==
    {rs \in SeqsUpTo(ScanRecords, MaxRecords) :
        \A a, b \in 1..Len(rs) : a # b => Key(rs[a]) # Key(rs[b])}

InitExport ==
    /\ IdleParse
    /\ IdleVerify
    /\ script \in {"export_state", "export_county", "scrape_main"}
    /\ pc = IF script = "export_state" THEN "main"
            ELSE IF script = "export_county" THEN "export_counties"
            ELSE "write_csv"
    /\ page = "any"
    /\ browser = "none"
    /\ svg_paths = 0
    /\ canvas_elements = 0
    /\ ran = <<>>
    /\ scanner = "none"
    /\ paths = 0
    /\ idx = 0
    /\ box = [x |-> 0, y |-> 0, width |-> 0, height |-> 0]
    /\ gx = 0
    /\ gy = 0
    /\ results \in IF script = "scrape_main" THEN ResultLists ELSE {<<>>}
    /\ seen = {}
    /\ found_counties = <<>>
    /\ fed = <<>>
    /\ cache_exists \in IF script = "export_state" THEN BOOLEAN ELSE {FALSE}
    /\ cache_file \in IF cache_exists
                      THEN SeqsUpTo(ExportRowSpace, MaxRecords)
                      ELSE {<<>>}
    /\ agg_data \in IF script = "export_county"
                    THEN SeqsUpTo(CountyRowSpace, MaxRecords)
                    ELSE {<<>>}
    /\ agg_year = 2026
    /\ agg_out = Unset
    /\ fetches = 0
    /\ returned = <<>>
    /\ csv = NoCsv

\* export_state_data.main: data = load_data(Path(args.cache));
\* if not data: return.  load_data reports a missing file and returns [].
LoadData ==
    /\ pc = "main" /\ script = "export_state"
    /\ agg_data' = IF cache_exists THEN cache_file ELSE <<>>
    /\ pc' = IF agg_data' = <<>> THEN "returned" ELSE "aggregate"
    /\ UNCHANGED <<parseVars, scanVars, verifyVars, runVars, fileVars,
                   agg_year, agg_out>>

\* export_state_data.main: count = export_states_csv(state_data, ...);
\* nothing is written for an empty list
ExportStates ==
    /\ pc = "aggregated" /\ script = "export_state"
    /\ csv' = IF agg_out = <<>> THEN csv
              ELSE [written |-> TRUE, rows |-> export_states_csv(agg_out)]
    /\ pc' = "returned"
    /\ UNCHANGED <<parseVars, scanVars, verifyVars, aggVars, runVars,
                   cache_exists, cache_file, fetches, returned>>

\* export_county_data.main: count = export_counties_csv(data, ...)
ExportCounties ==
    /\ pc = "export_counties"
    /\ csv' = IF agg_data = <<>> THEN csv
              ELSE [written |-> TRUE, rows |-> export_counties_csv(agg_data)]
    /\ pc' = "returned"
    /\ UNCHANGED <<parseVars, scanVars, verifyVars, aggVars, runVars,
                   cache_exists, cache_file, fetches, returned>>

\* scrape_ideon_map.main: write_csv(results, args.output)
WriteCsv ==
    /\ pc = "write_csv"
    /\ csv' = IF results = <<>> THEN csv
              ELSE [written |-> TRUE, rows |-> write_csv(results)]
    /\ pc' = "returned"
    /\ UNCHANGED <<parseVars, scanVars, verifyVars, aggVars, runVars,
                   cache_exists, cache_file, fetches, returned>>

NextExport ==
    LoadData \/ Aggregate \/ ExportStates \/ ExportCounties \/ WriteCsv

SpecExport == InitExport /\ [][NextExport]_vars

----------------------------------------------------------------------------
(* Claims about the CSV writers *)

StrLeq(a, b) == a = b \/ StrLess(a, b)

\* (s1, c1) <= (s2, c2) for pairs of strings
PairInOrder(s1, c1, s2, c2) ==
    StrLess(s1, s2) \/ (s1 = s2 /\ StrLeq(c1, c2))

\* (s1, a1, m1) <= (s2, a2, m2) for state, age, metal
TripleInOrder(s1, a1, m1, s2, a2, m2) ==
    \/ StrLess(s1, s2)
    \/ s1 = s2 /\ a1 < a2
    \/ s1 = s2 /\ a1 = a2 /\ StrLeq(m1, m2)

Occurrences(x, rows) == Cardinality({k \in 1..Len(rows) : rows[k] = x})

\* the two lists hold the same rows the same number of times
SameRows(a, b) ==
    /\ Len(a) = Len(b)
    /\ \A k \in 1..Len(a) : Occurrences(a[k], a) = Occurrences(a[k], b)

\* C16: the rows written by export_counties_csv and by write_csv are in
\* ascending (state, county) order, those written by export_states_csv in
\* ascending (state, age, metal) order, and the rows written are the input
\* records, each as often as it is in the input
C16_SortedPermutation ==
    (pc = "returned" /\ csv.written) =>
        IF script = "export_county"
        THEN /\ \A k \in 1..(Len(csv.rows) - 1) :
                    PairInOrder(csv.rows[k].state_abbr, csv.rows[k].county,
                                csv.rows[k + 1].state_abbr, csv.rows[k + 1].county)
             /\ SameRows(csv.rows, [k \in 1..Len(agg_data) |->
                                  CountyCsvRow(agg_data[k])])
        ELSE IF script = "scrape_main"
        THEN /\ \A k \in 1..(Len(csv.rows) - 1) :
                    PairInOrder(csv.rows[k].state, csv.rows[k].county,
                                csv.rows[k + 1].state, csv.rows[k + 1].county)
             /\ SameRows(csv.rows, results)
        ELSE /\ \A k \in 1..(Len(csv.rows) - 1) :
                    TripleInOrder(Spell(csv.rows[k].state_abbr), csv.rows[k].age,
                                  csv.rows[k].metal_tier,
                                  Spell(csv.rows[k + 1].state_abbr),
                                  csv.rows[k + 1].age, csv.rows[k + 1].metal_tier)
             /\ SameRows(csv.rows, agg_out)

\* three county rows given in descending order have been written
C16_Witness ==
    /\ script = "export_county" /\ pc = "returned" /\ csv.written
    /\ Len(agg_data) = 3
    /\ StrLess(agg_data[3].st, agg_data[2].st)
    /\ StrLess(agg_data[2].st, agg_data[1].st)

----------------------------------------------------------------------------
(* export_county_data.fetch_data: download with a cache file.  The file    *)
(* and the response are JSON texts, whose numbers are decimal literals;    *)
(* json.load turns a literal into the nearest double (or None for null)    *)
(* and json.dump writes a double as its repr.                              *)

RECURSIVE Times10(_, _)
Times10(m, k) == IF k = 0 THEN m ELSE Times10(BMulSmall(m, 10), k - 1)

\* the decimal with k places nearest to the exact value of the double x
round_places(x, k) ==
    LET v == Times10(x.m, k)
        c == IF x.e >= 0 THEN BShl(v, x.e)
             ELSE LET h  == BShr(v, (0 - x.e) - 1)
                      q  == BShr(h.q, 1).q
                      up == BOdd(h.q) /\ (h.lost \/ BOdd(q))
                  IN  IF up THEN BAdd(q, <<1>>) ELSE q
    IN  Canon(IF x.neg THEN 0 - BToInt(c) ELSE BToInt(c), k)

\* the first of the candidates with k, k + 1, ... places that reads back
\* as x
RECURSIVE ReprTry(_, _, _)
ReprTry(x, k, cand) ==
    IF ToDouble(cand) = x THEN cand
    ELSE ReprTry(x, k + 1, round_places(x, k + 1))

\* the slip of writing amounts with two decimals
float_repr_cents(x) == round2(x)

\* float.__repr__: the shortest decimal that reads back as x
float_repr(x) == ReprTry(x, 0, round_places(x, 0))

\* json.load / json.loads on the text of a list of rows
json_loads(txt) ==
    [k \in 1..Len(txt) |->
        [txt[k] EXCEPT
            !.i = IF @ = None THEN None ELSE ToDouble(@),
            !.s = IF @ = None THEN None ELSE ToDouble(@),
            !.d = IF @ = None THEN None ELSE ToDouble(@)]]

\* json.dump of a list of rows
json_dumps(data) ==
    [k \in 1..Len(data) |->
        [data[k] EXCEPT
            !.i = IF @ = None THEN None ELSE float_repr(@),
            !.s = IF @ = None THEN None ELSE float_repr(@),
            !.d = IF @ = None THEN None ELSE float_repr(@)]]

MaxCalls == 3

\* rows of a response: amounts with no, one, two and three decimals
FetchRowSpace ==
    {CountyRow(Fips("4", "8"), <<"A", "d", "a">>, <<"T", "X">>, Gold, Dec(700991, 3)),
     CountyRow(Fips("4", "8"), <<"B", "e", "e">>, <<"T", "X">>, Gold, Dec(1, 1)),
     CountyRow(Fips("0", "6"), <<"K", "e", "r", "n">>, <<"C", "A">>, Gold, None),
     CountyRow(Fips("0", "6"), <<"K", "e", "r", "n">>, <<"C", "A">>, Silver, Dec(700, 0))}

\* what DATA_URL can answer, and what a cache file can hold
Responses == SeqsUpTo(FetchRowSpace, MaxRecords)

InitFetch ==
    /\ pc = "fetch"
    /\ IdleParse
    /\ IdleScan
    /\ IdleVerify
    /\ IdleAgg
    /\ script = "export_county"
    /\ page = "any"
    /\ browser = "none"
    /\ svg_paths = 0
    /\ canvas_elements = 0
    /\ ran = <<>>
    /\ cache_exists \in BOOLEAN
    /\ cache_file \in IF cache_exists THEN Responses ELSE {<<>>}
    /\ fetches = 0
    /\ returned = <<>>
    /\ csv = NoCsv

\* one call of fetch_data(cache_file) with the cache path.  A call whose
\* download fails raises and leaves everything as it was.
FetchData ==
    /\ pc = "fetch"
    /\ Len(returned) < MaxCalls
    /\ IF cache_exists
       THEN /\ returned' = Append(returned, json_loads(cache_file))
            /\ UNCHANGED <<cache_exists, cache_file, fetches>>
       ELSE \E response \in Responses :
            /\ fetches' = fetches + 1
            /\ cache_file' = json_dumps(json_loads(response))
            /\ cache_exists' = TRUE
            /\ returned' = Append(returned, json_loads(response))
    /\ UNCHANGED <<pc, parseVars, scanVars, verifyVars, aggVars, runVars, csv>>

NextFetch == FetchData

SpecFetch == InitFetch /\ [][NextFetch]_vars

====
